---- MODULE Spec2Model ----
(***************************************************************************)
(* quick_workflow: a command-line client that aggregates CI workflow runs  *)
(* of GitHub and GitLab projects.  The model follows main.go, state.go,    *)
(* workflows.go and the two platform clients (github.go, gitlab.go).       *)
(*                                                                         *)
(* Strings the code takes apart (project names, user input, run ids) are   *)
(* sequences of one-character strings; strings the code only compares      *)
(* (platform tags, statuses, messages) are TLA+ strings.  Timestamps are   *)
(* integers, time.Time.After is >.                                         *)
(***************************************************************************)
EXTENDS Integers, Sequences, FiniteSets, TLC

\* ----------------------------------------------------------------- bounds
\* longest project sequence of an initial state document
MaxProjects == 3
\* most runs gathered by one watch / list aggregation
MaxRuns == 3
\* createdAt values are 1..MaxTime
MaxTime == 3
\* most jobs in one remote job listing
MaxJobs == 2
\* most load / save calls followed in the persistence specification
MaxCycles == 3

\* ------------------------------------------------------ program constants
\* watchWorkflows asks for 10 runs per project
WatchLimit == 10
\* listWorkflows asks for 20 runs per project unless an argument says else
DefaultListLimit == 20

\* ----------------------------------------------------------------- strings
Digits == <<"0", "1", "2", "3", "4", "5", "6", "7", "8", "9">>

IsDigit(c) == \E d \in 1..10 : Digits[d] = c

DigitVal(c) == (CHOOSE d \in 1..10 : Digits[d] = c) - 1

IsSpace(c) == c \in {" ", "\t", "\n", "\r"}

RECURSIVE TrimLeft(_)
TrimLeft(s) ==
  IF s # <<>> /\ IsSpace(Head(s)) THEN TrimLeft(Tail(s)) ELSE s

RECURSIVE TrimRight(_)
TrimRight(s) ==
  IF s # <<>> /\ IsSpace(s[Len(s)]) THEN TrimRight(SubSeq(s, 1, Len(s) - 1)) ELSE s

\* A variant that trims nothing
TrimSpaceNothing(s) == s

\* strings.TrimSpace
TrimSpace(s) == TrimRight(TrimLeft(s))

RECURSIVE DigitsValue(_, _)
DigitsValue(s, acc) ==
  IF s = <<>> THEN acc ELSE DigitsValue(Tail(s), 10 * acc + DigitVal(Head(s)))

\* strconv.Atoi / strconv.ParseInt(s, 10, 64): an optional sign, then one or
\* more decimal digits; anything else is an error.  (Values that overflow
\* the integer width are errors too; the inputs drawn here are short.)
Atoi(s) ==
  LET signed == s # <<>> /\ Head(s) \in {"+", "-"}
      body == IF signed THEN Tail(s) ELSE s
  IN IF body = <<>> \/ \E k \in 1..Len(body) : ~IsDigit(body[k])
       THEN [ok |-> FALSE, val |-> 0]
       ELSE [ok |-> TRUE,
             val |-> IF signed /\ Head(s) = "-"
                       THEN 0 - DigitsValue(body, 0)
                       ELSE DigitsValue(body, 0)]

RECURSIVE NatToStr(_)
NatToStr(n) ==
  IF n < 10 THEN <<Digits[n + 1]>>
  ELSE NatToStr(n \div 10) \o <<Digits[(n % 10) + 1]>>

\* fmt.Sprintf("%d", n)
Itoa(n) == IF n < 0 THEN <<"-">> \o NatToStr(0 - n) ELSE NatToStr(n)

RECURSIVE SplitFrom(_, _, _)
SplitFrom(s, sep, cur) ==
  IF s = <<>> THEN <<cur>>
  ELSE IF Head(s) = sep THEN <<cur>> \o SplitFrom(Tail(s), sep, <<>>)
  ELSE SplitFrom(Tail(s), sep, Append(cur, Head(s)))

\* strings.Split(s, sep) for a one-character separator
Split(s, sep) == SplitFrom(s, sep, <<>>)

\* fmt.Sprintf("%s/%s", owner, repo)
JoinSlash(owner, repo) == owner \o <<"/">> \o repo

\* ------------------------------------------------------------------ errors
\* The code's errors are fmt.Errorf texts; kind is the text's fixed part and
\* subject the value printed into it.
NoErr == [kind |-> "nil", subject |-> ""]

Err(k, s) == [kind |-> k, subject |-> s]

\* ------------------------------------------------------------------- state
VARIABLES
  env,             \* process environment: variable name -> "UNSET" or its value
  file,            \* the state document on disk
  file0,           \* the state document as it was when the process started
  pc,              \* position of the process in main and the command it runs
  command,         \* args[0]
  args,            \* args[1:]
  projects,        \* config.Projects
  idx,             \* 1-based position of the fan-out loop in config.Projects
  allRuns,         \* allRuns of watchWorkflows / listWorkflows
  results,         \* what each getWorkflowRunsForProject call of the loop returned
  rendered,        \* the list displayWorkflowRuns was called with, <<>> before
  selectedRun,     \* the run handed to showWorkflowDetails, <<>> when none
  selectedProject, \* start: the project selectProject returned, <<>> when none
  workflows,       \* start: what getAvailableWorkflows returned
  selectedWorkflow, \* start: the name selectWorkflow returned
  listLimit,       \* list: the page size asked of each project
  stdin,           \* the reads of the terminal so far, in order
  out,             \* what the process printed, in order
  clients,         \* platform clients constructed so far
  net,             \* remote calls issued so far
  exitStatus,      \* "running", or the exit status "0" / "1"
  fnName,          \* function-level specifications: the function applied
  fnIn,            \*   its input
  fnOut,           \*   its result
  cycles           \* load / save calls so far, or invocations after the first

procVars == <<pc, command, args, projects, idx, allRuns, results, rendered,
              selectedRun, selectedProject, workflows, selectedWorkflow, listLimit,
              stdin, out, clients, net, exitStatus>>

fnVars == <<fnName, fnIn, fnOut>>

vars == <<env, file, file0, procVars, fnVars, cycles>>

\* ---------------------------------------------------------- state document
\* The state document is [state, projects, version]: state is "absent" (no
\* file), "corrupt" (unreadable, or not the JSON of a State) or "ok"; a project
\* in it is a JSON object, a function from the keys present to their values.
Absent == [state |-> "absent", projects |-> <<>>, version |-> ""]

Corrupt == [state |-> "corrupt", projects |-> <<>>, version |-> ""]

\* ------------------------------------------------------------- environment
EnvNames == {"GITHUB_TOKEN", "GITLAB_TOKEN"}

Environments == [EnvNames -> {"UNSET", "", "tok"}]

\* os.Getenv: the value, "" when the variable is not set
Getenv(name) == IF env[name] = "UNSET" THEN "" ELSE env[name]

\* ----------------------------------------------------------------- clients
\* What a client method returns: the value, the error and the remote calls
\* it issued.
MResult(v, e, calls) == [val |-> v, err |-> e, calls |-> calls]

\* What a dispatch function returns: the same, and the clients it constructed.
Result(v, e, cs, calls) == [val |-> v, err |-> e, clients |-> cs, calls |-> calls]

WithClient(platform, m) == Result(m.val, m.err, <<platform>>, m.calls)

Call(platform, op, identity, arg) ==
  [platform |-> platform, op |-> op, identity |-> identity, arg |-> arg]

RemoteErr == Err("remote error", "")

NewGitHubClientNoCheck == [ok |-> TRUE, err |-> NoErr]

\* NewGitHubClient: fails when GITHUB_TOKEN is empty or unset
NewGitHubClient ==
  IF Getenv("GITHUB_TOKEN") = ""
    THEN [ok |-> FALSE, err |-> Err("environment variable not set", "GITHUB_TOKEN")]
    ELSE [ok |-> TRUE, err |-> NoErr]

\* NewGitLabClient: fails when GITLAB_TOKEN is empty or unset.  gitlab.NewClient
\* is called without options and does not fail.
NewGitLabClient ==
  IF Getenv("GITLAB_TOKEN") = ""
    THEN [ok |-> FALSE, err |-> Err("environment variable not set", "GITLAB_TOKEN")]
    ELSE [ok |-> TRUE, err |-> NoErr]

\* A remote answer to a run listing is [fail, runs]: a failure, or runs with a
\* numeric id and a creation time.  Status and conclusion are passed through
\* by the clients and decide nothing here; they are fixed.
RemoteRun(id, t) == [id |-> id, createdAt |-> t]

\* GitHubClient.GetWorkflowRuns: one remote call; each run becomes a
\* WorkflowRun tagged "github" whose Project is owner/repo.
GitHubGetWorkflowRuns(owner, repo, limit, resp) ==
  LET call == Call("github", "ListRuns", JoinSlash(owner, repo), Itoa(limit))
  IN IF resp.fail
       THEN MResult(<<>>, RemoteErr, <<call>>)
       ELSE MResult([k \in 1..Len(resp.runs) |->
                      [ID |-> Itoa(resp.runs[k].id),
                       Project |-> JoinSlash(owner, repo),
                       Status |-> "completed",
                       Conclusion |-> "success",
                       CreatedAt |-> resp.runs[k].createdAt,
                       Platform |-> "github"]],
                    NoErr, <<call>>)

\* GitLabClient.GetPipelineRuns: one remote call; each pipeline becomes a
\* WorkflowRun tagged "gitlab" whose Project is the identifier passed in and
\* whose Conclusion repeats its Status.
GitLabGetPipelineRuns(projectID, limit, resp) ==
  LET call == Call("gitlab", "ListRuns", projectID, Itoa(limit))
  IN IF resp.fail
       THEN MResult(<<>>, RemoteErr, <<call>>)
       ELSE MResult([k \in 1..Len(resp.runs) |->
                      [ID |-> Itoa(resp.runs[k].id),
                       Project |-> projectID,
                       Status |-> "success",
                       Conclusion |-> "success",
                       CreatedAt |-> resp.runs[k].createdAt,
                       Platform |-> "gitlab"]],
                    NoErr, <<call>>)

\* An optional timestamp (*time.Time) is <<>> for nil and <<t>> otherwise.
\* A remote GitHub job is [id, runID, name, status, conclusion, startedAt,
\* completedAt, steps], each step [name, status, conclusion, startedAt,
\* completedAt].
GitHubStep(step) ==
  [Name |-> step.name, Status |-> step.status, Conclusion |-> step.conclusion,
   StartedAt |-> step.startedAt, CompletedAt |-> step.completedAt]

\* GitHubClient.GetWorkflowJobs: the run id is parsed first, then one remote
\* call; every remote step becomes a Step of the Job.
GitHubGetWorkflowJobs(owner, repo, runID, resp) ==
  LET call == Call("github", "ListJobs", JoinSlash(owner, repo), runID)
  IN IF ~Atoi(runID).ok
       THEN MResult(<<>>, Err("strconv: invalid syntax", runID), <<>>)
     ELSE IF resp.fail
       THEN MResult(<<>>, RemoteErr, <<call>>)
     ELSE MResult([k \in 1..Len(resp.jobs) |->
                     [ID |-> Itoa(resp.jobs[k].id),
                      RunID |-> Itoa(resp.jobs[k].runID),
                      Name |-> resp.jobs[k].name,
                      Status |-> resp.jobs[k].status,
                      Conclusion |-> resp.jobs[k].conclusion,
                      StartedAt |-> resp.jobs[k].startedAt,
                      CompletedAt |-> resp.jobs[k].completedAt,
                      Steps |-> [j \in 1..Len(resp.jobs[k].steps) |->
                                   GitHubStep(resp.jobs[k].steps[j])]]],
                  NoErr, <<call>>)

GitLabStepNoFinish(job) ==
  [Name |-> job.name, Status |-> job.status, Conclusion |-> job.status,
   StartedAt |-> job.startedAt, CompletedAt |-> <<>>]

\* The single Step GetPipelineJobs builds for a GitLab job (lines 115-127).
GitLabStep(job) ==
  [Name |-> job.name, Status |-> job.status, Conclusion |-> job.status,
   StartedAt |-> job.startedAt, CompletedAt |-> job.finishedAt]

\* GitLabClient.GetPipelineJobs: the pipeline id is parsed first, then one
\* remote call; a remote job is [id, name, status, startedAt, finishedAt] and
\* becomes a Job carrying one Step.
GitLabGetPipelineJobs(projectID, pipelineID, resp) ==
  LET call == Call("gitlab", "ListJobs", projectID, pipelineID)
  IN IF ~Atoi(pipelineID).ok
       THEN MResult(<<>>, Err("strconv: invalid syntax", pipelineID), <<>>)
     ELSE IF resp.fail
       THEN MResult(<<>>, RemoteErr, <<call>>)
     ELSE MResult([k \in 1..Len(resp.jobs) |->
                     [ID |-> Itoa(resp.jobs[k].id),
                      RunID |-> pipelineID,
                      Name |-> resp.jobs[k].name,
                      Status |-> resp.jobs[k].status,
                      Conclusion |-> resp.jobs[k].status,
                      StartedAt |-> resp.jobs[k].startedAt,
                      CompletedAt |-> resp.jobs[k].finishedAt,
                      Steps |-> <<GitLabStep(resp.jobs[k])>>]],
                  NoErr, <<call>>)

\* GitHubClient.GetWorkflows: one remote call, the workflows' names
GitHubGetWorkflows(owner, repo, resp) ==
  LET call == Call("github", "ListWorkflows", JoinSlash(owner, repo), <<>>)
  IN IF resp.fail THEN MResult(<<>>, RemoteErr, <<call>>)
     ELSE MResult(resp.names, NoErr, <<call>>)

\* GitLabClient.GetPipelines: one remote call, the branches' names
GitLabGetPipelines(projectID, resp) ==
  LET call == Call("gitlab", "ListBranches", projectID, <<>>)
  IN IF resp.fail THEN MResult(<<>>, RemoteErr, <<call>>)
     ELSE MResult(resp.names, NoErr, <<call>>)

GitHubTriggerWorkflowSucceeds(owner, repo, workflowID, ref) ==
  MResult(<<>>, NoErr, <<>>)

\* GitHubClient.TriggerWorkflow: always the not-implemented error, no call
GitHubTriggerWorkflow(owner, repo, workflowID, ref) ==
  MResult(<<>>, Err("workflow triggering not yet implemented for GitHub", ""), <<>>)

\* GitLabClient.TriggerPipeline: one remote call creating a pipeline on ref
\* (the caller passes no variables)
GitLabTriggerPipeline(projectID, ref, resp) ==
  LET call == Call("gitlab", "CreatePipeline", projectID, ref)
  IN IF resp.fail THEN MResult(<<>>, RemoteErr, <<call>>)
     ELSE MResult(<<>>, NoErr, <<call>>)

\* ---------------------------------------------------------------- dispatch
Failed(e) == Result(<<>>, e, <<>>, <<>>)

Unsupported(platform) == Failed(Err("unsupported platform", platform))

\* getWorkflowRunsForProject
getWorkflowRunsForProject(project, limit, resp) ==
  CASE project.Platform = "github" ->
         IF ~NewGitHubClient.ok THEN Failed(NewGitHubClient.err)
         ELSE WithClient("github",
                GitHubGetWorkflowRuns(project.Owner, project.Repo, limit, resp))
    [] project.Platform = "gitlab" ->
         IF ~NewGitLabClient.ok THEN Failed(NewGitLabClient.err)
         ELSE WithClient("gitlab", GitLabGetPipelineRuns(project.Name, limit, resp))
    [] OTHER -> Unsupported(project.Platform)

\* getAvailableWorkflows
getAvailableWorkflows(project, resp) ==
  CASE project.Platform = "github" ->
         IF ~NewGitHubClient.ok THEN Failed(NewGitHubClient.err)
         ELSE WithClient("github",
                GitHubGetWorkflows(project.Owner, project.Repo, resp))
    [] project.Platform = "gitlab" ->
         IF ~NewGitLabClient.ok THEN Failed(NewGitLabClient.err)
         ELSE WithClient("gitlab", GitLabGetPipelines(project.Name, resp))
    [] OTHER -> Unsupported(project.Platform)

\* A variant that triggers every known platform through the GitLab client
triggerWorkflowViaGitLab(project, workflowName, resp) ==
  IF project.Platform \in {"github", "gitlab"}
    THEN IF ~NewGitLabClient.ok THEN Failed(NewGitLabClient.err)
         ELSE WithClient("gitlab",
                GitLabTriggerPipeline(project.Name, workflowName, resp))
  ELSE Unsupported(project.Platform)

\* triggerWorkflow: GitHub is triggered on ref "main"
triggerWorkflow(project, workflowName, resp) ==
  CASE project.Platform = "github" ->
         IF ~NewGitHubClient.ok THEN Failed(NewGitHubClient.err)
         ELSE WithClient("github",
                GitHubTriggerWorkflow(project.Owner, project.Repo, workflowName, "main"))
    [] project.Platform = "gitlab" ->
         IF ~NewGitLabClient.ok THEN Failed(NewGitLabClient.err)
         ELSE WithClient("gitlab",
                GitLabTriggerPipeline(project.Name, workflowName, resp))
    [] OTHER -> Unsupported(project.Platform)

\* A variant that takes the repository for the owner
RunProjectReversed(run) ==
  [Name |-> run.Project,
   Owner |-> Split(run.Project, "/")[2],
   Repo |-> Split(run.Project, "/")[1],
   Platform |-> run.Platform]

\* The temporary Project getJobsForRun builds from a run (lines 297-306)
RunProject(run) ==
  [Name |-> run.Project,
   Owner |-> Split(run.Project, "/")[1],
   Repo |-> Split(run.Project, "/")[2],
   Platform |-> run.Platform]

dispatchJobsAnyPlatform(project, runID, resp) ==
  IF project.Platform = "gitlab"
    THEN IF ~NewGitLabClient.ok THEN Failed(NewGitLabClient.err)
         ELSE WithClient("gitlab", GitLabGetPipelineJobs(project.Name, runID, resp))
    ELSE IF ~NewGitHubClient.ok THEN Failed(NewGitHubClient.err)
         ELSE WithClient("github",
                GitHubGetWorkflowJobs(project.Owner, project.Repo, runID, resp))

\* The platform switch of getJobsForRun (lines 308-323)
dispatchJobs(project, runID, resp) ==
  CASE project.Platform = "github" ->
         IF ~NewGitHubClient.ok THEN Failed(NewGitHubClient.err)
         ELSE WithClient("github",
                GitHubGetWorkflowJobs(project.Owner, project.Repo, runID, resp))
    [] project.Platform = "gitlab" ->
         IF ~NewGitLabClient.ok THEN Failed(NewGitLabClient.err)
         ELSE WithClient("gitlab", GitLabGetPipelineJobs(project.Name, runID, resp))
    [] OTHER -> Unsupported(project.Platform)

\* getJobsForRun: the run's project string must split on "/" into two parts
getJobsForRun(run, resp) ==
  IF Len(Split(run.Project, "/")) # 2
    THEN Failed(Err("invalid project format", run.Project))
    ELSE dispatchJobs(RunProject(run), run.ID, resp)

\* ------------------------------------------------------------------ inputs
\* Platform tags a Project or run can carry: the two known ones, and tags a
\* hand-edited state document can hold.
Platforms == {"github", "gitlab", "bitbucket", ""}

KnownPlatforms == {"github", "gitlab"}

\* Project strings: owner/repo, and strings that are not of that form
NameAB == <<"a", "/", "b">>

NameCD == <<"c", "/", "d">>

ProjectStrings ==
  {NameAB, NameCD, <<"a", "/">>, <<"/", "b">>, <<"/">>, <<"a", "b">>,
   <<"a", "/", "b", "/", "c">>, <<>>}

\* A Project as add builds it from (platform, owner, repo)
MkProject(platform, owner, repo) ==
  [Name |-> JoinSlash(owner, repo), Owner |-> owner, Repo |-> repo,
   Platform |-> platform, RemoteURL |-> "url", AddedAt |-> "t0",
   AccessToken |-> ""]

\* Sequences of at most n remote runs, the k-th with id base + k
RemoteRunLists(base, n) ==
  UNION {{[k \in 1..len |-> RemoteRun(base + k, ts[k])] :
            ts \in [1..len -> 1..MaxTime]} : len \in 0..n}

RunResponses(base, n) ==
  {[fail |-> TRUE, runs |-> <<>>]} \cup
  {[fail |-> FALSE, runs |-> rs] : rs \in RemoteRunLists(base, n)}

OptTimes(t) == {<<>>, <<t>>}

\* Remote GitLab jobs: the k-th has id k
GitLabRemoteJobs ==
  [id : {0}, name : {"build"}, status : {"success", "running"},
   startedAt : OptTimes(1), finishedAt : OptTimes(2)]

GitLabJobLists(n) ==
  UNION {{[k \in 1..len |-> [js[k] EXCEPT !.id = k]] :
            js \in [1..len -> GitLabRemoteJobs]} : len \in 0..n}

GitLabJobResponses(n) ==
  {[fail |-> TRUE, jobs |-> <<>>]} \cup
  {[fail |-> FALSE, jobs |-> js] : js \in GitLabJobLists(n)}

\* Remote GitHub jobs with zero to two steps
GitHubRemoteStep(nm) ==
  [name |-> nm, status |-> "completed", conclusion |-> "success",
   startedAt |-> <<1>>, completedAt |-> <<2>>]

GitHubRemoteJobs ==
  [id : {0}, runID : {7}, name : {"test"}, status : {"completed", "queued"},
   conclusion : {"success", ""}, startedAt : OptTimes(1),
   completedAt : OptTimes(2),
   steps : {<<>>, <<GitHubRemoteStep("checkout")>>,
            <<GitHubRemoteStep("checkout"), GitHubRemoteStep("make")>>}]

GitHubJobLists(n) ==
  UNION {{[k \in 1..len |-> [js[k] EXCEPT !.id = k]] :
            js \in [1..len -> GitHubRemoteJobs]} : len \in 0..n}

GitHubJobResponses(n) ==
  {[fail |-> TRUE, jobs |-> <<>>]} \cup
  {[fail |-> FALSE, jobs |-> js] : js \in GitHubJobLists(n)}

\* The answers a job listing for a run of the given platform can get
JobResponses(platform, n) ==
  IF platform = "gitlab" THEN GitLabJobResponses(n) ELSE GitHubJobResponses(n)

\* The answers a drill-down of the process is given: a failure, no job, or
\* one job
DetailResponses(platform) ==
  {[fail |-> TRUE, jobs |-> <<>>], [fail |-> FALSE, jobs |-> <<>>],
   [fail |-> FALSE,
    jobs |-> IF platform = "gitlab"
               THEN <<[id |-> 1, name |-> "build", status |-> "success",
                       startedAt |-> <<1>>, finishedAt |-> <<2>>]>>
               ELSE <<[id |-> 1, runID |-> 7, name |-> "test",
                       status |-> "completed", conclusion |-> "success",
                       startedAt |-> <<1>>, completedAt |-> <<2>>,
                       steps |-> <<GitHubRemoteStep("checkout")>>]>>]}

NameResponses ==
  {[fail |-> TRUE, names |-> <<>>], [fail |-> FALSE, names |-> <<>>],
   [fail |-> FALSE, names |-> <<"ci">>],
   [fail |-> FALSE, names |-> <<"ci", "deploy">>]}

TriggerResponses == {[fail |-> TRUE], [fail |-> FALSE]}

\* ------------------------------------------------------------ status colors
\* The status and conclusion strings the clients deliver, and some they do not
Statuses ==
  {"completed", "in_progress", "running", "queued", "pending", "failed",
   "success", "canceled", "skipped", ""}

Conclusions ==
  {"success", "failure", "cancelled", "skipped", "timed_out", "neutral", ""}

\* A variant that shows every successful conclusion in green
colorWorkflowStatusByConclusion(status, conclusion) ==
  IF conclusion = "success" THEN "green"
  ELSE IF status \in {"in_progress", "running"} THEN "blue"
  ELSE "white"

\* colorWorkflowStatus: the color of a (status, conclusion) pair
colorWorkflowStatus(status, conclusion) ==
  CASE status = "completed" ->
         IF conclusion = "success" THEN "green"
         ELSE IF conclusion = "failure" THEN "red"
         ELSE IF conclusion = "cancelled" THEN "yellow"
         ELSE "white"
    [] status \in {"in_progress", "running"} -> "blue"
    [] status \in {"queued", "pending"} -> "yellow"
    [] status = "failed" -> "red"
    [] OTHER -> "white"

\* colorJobStatus: the same
colorJobStatus(status, conclusion) == colorWorkflowStatus(status, conclusion)

\* ------------------------------------------------------- remote URL parsing
\* strings.HasPrefix, TrimPrefix, TrimSuffix and Contains on character
\* sequences
HasPrefix(s, prefix) ==
  Len(s) >= Len(prefix) /\ SubSeq(s, 1, Len(prefix)) = prefix

TrimPrefix(s, prefix) ==
  IF HasPrefix(s, prefix) THEN SubSeq(s, Len(prefix) + 1, Len(s)) ELSE s

HasSuffix(s, suffix) ==
  Len(s) >= Len(suffix) /\ SubSeq(s, Len(s) - Len(suffix) + 1, Len(s)) = suffix

TrimSuffix(s, suffix) ==
  IF HasSuffix(s, suffix) THEN SubSeq(s, 1, Len(s) - Len(suffix)) ELSE s

Contains(s, sub) ==
  \E k \in 1..(Len(s) - Len(sub) + 1) : SubSeq(s, k, k + Len(sub) - 1) = sub

\* The remote URLs `git remote get-url origin` can print
RemoteURLs ==
  {"https://github.com/a/b.git",
   "git@github.com:a/b.git",
   "https://gitlab.com/c/d.git",
   "git@gitlab.com:c/d.git",
   "https://git.example.com/c/d.git",
   "https://gitlab.example.com/c/d.git",
   "https://gitlab.com/a/b.git",
   "https://github.com/a/b",
   "https://github.com/a",
   "https://bitbucket.org/e/f.git"}

\* The characters of a remote URL
URLChars(url) ==
  CASE url = "https://github.com/a/b.git" ->
         <<"h", "t", "t", "p", "s", ":", "/", "/", "g", "i", "t", "h", "u", "b", ".", "c", "o", "m", "/", "a", "/", "b", ".", "g", "i", "t">>
    [] url = "git@github.com:a/b.git" ->
         <<"g", "i", "t", "@", "g", "i", "t", "h", "u", "b", ".", "c", "o", "m", ":", "a", "/", "b", ".", "g", "i", "t">>
    [] url = "https://gitlab.com/c/d.git" ->
         <<"h", "t", "t", "p", "s", ":", "/", "/", "g", "i", "t", "l", "a", "b", ".", "c", "o", "m", "/", "c", "/", "d", ".", "g", "i", "t">>
    [] url = "git@gitlab.com:c/d.git" ->
         <<"g", "i", "t", "@", "g", "i", "t", "l", "a", "b", ".", "c", "o", "m", ":", "c", "/", "d", ".", "g", "i", "t">>
    [] url = "https://git.example.com/c/d.git" ->
         <<"h", "t", "t", "p", "s", ":", "/", "/", "g", "i", "t", ".", "e", "x", "a", "m", "p", "l", "e", ".", "c", "o", "m", "/", "c", "/", "d", ".", "g", "i", "t">>
    [] url = "https://gitlab.example.com/c/d.git" ->
         <<"h", "t", "t", "p", "s", ":", "/", "/", "g", "i", "t", "l", "a", "b", ".", "e", "x", "a", "m", "p", "l", "e", ".", "c", "o", "m", "/", "c", "/", "d", ".", "g", "i", "t">>
    [] url = "https://gitlab.com/a/b.git" ->
         <<"h", "t", "t", "p", "s", ":", "/", "/", "g", "i", "t", "l", "a", "b", ".", "c", "o", "m", "/", "a", "/", "b", ".", "g", "i", "t">>
    [] url = "https://github.com/a/b" ->
         <<"h", "t", "t", "p", "s", ":", "/", "/", "g", "i", "t", "h", "u", "b", ".", "c", "o", "m", "/", "a", "/", "b">>
    [] url = "https://github.com/a" ->
         <<"h", "t", "t", "p", "s", ":", "/", "/", "g", "i", "t", "h", "u", "b", ".", "c", "o", "m", "/", "a">>
    [] url = "https://bitbucket.org/e/f.git" ->
         <<"h", "t", "t", "p", "s", ":", "/", "/", "b", "i", "t", "b", "u", "c", "k", "e", "t", ".", "o", "r", "g", "/", "e", "/", "f", ".", "g", "i", "t">>

GitHubHTTPS == <<"h", "t", "t", "p", "s", ":", "/", "/", "g", "i", "t", "h", "u", "b", ".", "c", "o", "m", "/">>

GitHubSSH == <<"g", "i", "t", "@", "g", "i", "t", "h", "u", "b", ".", "c", "o", "m", ":">>

GitLabWord == <<"g", "i", "t", "l", "a", "b">>

DotGit == <<".", "g", "i", "t">>

ParseFailed(url) ==
  [platform |-> "", owner |-> <<>>, repo |-> <<>>,
   err |-> Err("unsupported remote URL format", url)]

Parsed(platform, owner, repo) ==
  [platform |-> platform, owner |-> owner, repo |-> repo, err |-> NoErr]

\* parseRemoteURL's GitLab branch: the first part holding "gitlab" that has
\* two parts after it gives owner and repo
parseGitLabParts(url, parts) ==
  LET found == {k \in 1..Len(parts) :
                  Contains(parts[k], GitLabWord) /\ k + 2 <= Len(parts)}
  IN IF found = {} THEN ParseFailed(url)
     ELSE LET k == CHOOSE j \in found : \A m \in found : j <= m
          IN Parsed("gitlab", parts[k + 1], TrimSuffix(parts[k + 2], DotGit))

\* parseRemoteURL: platform, owner and repo of a remote URL, or an error
parseRemoteURL(url) ==
  LET text == URLChars(url)
  IN IF HasPrefix(text, GitHubHTTPS)
       THEN LET parts == Split(TrimPrefix(text, GitHubHTTPS), "/")
            IN IF Len(parts) >= 2
                 THEN Parsed("github", parts[1], TrimSuffix(parts[2], DotGit))
                 ELSE ParseFailed(url)
     ELSE IF HasPrefix(text, GitHubSSH)
       THEN LET parts == Split(TrimPrefix(text, GitHubSSH), "/")
            IN IF Len(parts) >= 2
                 THEN Parsed("github", parts[1], TrimSuffix(parts[2], DotGit))
                 ELSE ParseFailed(url)
     ELSE IF Contains(text, GitLabWord)
       THEN parseGitLabParts(url, Split(text, "/"))
     ELSE ParseFailed(url)

\* --------------------------------------------- the process at rest
ProcIdle ==
  /\ pc = "idle" /\ command = "" /\ args = <<>> /\ projects = <<>>
  /\ idx = 0 /\ allRuns = <<>> /\ results = <<>> /\ rendered = <<>>
  /\ selectedRun = <<>> /\ selectedProject = <<>> /\ workflows = <<>>
  /\ selectedWorkflow = "" /\ listLimit = 0 /\ stdin = <<>>
  /\ out = <<>> /\ clients = <<>> /\ net = <<>> /\ exitStatus = "running"

FnIdle == fnName = "none" /\ fnIn = <<>> /\ fnOut = <<>>

\* ------------------------------------- the dispatch functions, one by one
\* Each action applies one function of workflows.go or of a client, once, to
\* an input drawn from the sets above, in an environment fixed at the start.
CallProjects ==
  {MkProject(pf, <<"a">>, <<"b">>) : pf \in Platforms} \cup
  {MkProject(pf, <<"a">>, <<>>) : pf \in Platforms} \cup
  {[MkProject(pf, <<"a">>, <<"b">>) EXCEPT !.Name = NameCD] : pf \in KnownPlatforms}

CallRuns ==
  [ID : {<<"7">>, <<"x">>}, Project : ProjectStrings, Status : {"completed"},
   Conclusion : {"success"}, CreatedAt : {1}, Platform : Platforms]

CallsInit ==
  /\ env \in Environments
  /\ file = Absent
  /\ file0 = file
  /\ cycles = 0
  /\ ProcIdle
  /\ FnIdle

CallGetWorkflowRunsForProject ==
  \E p \in CallProjects, limit \in {WatchLimit, DefaultListLimit},
     resp \in RunResponses(0, 1) :
    /\ fnName = "none"
    /\ fnName' = "getWorkflowRunsForProject"
    /\ fnIn' = [project |-> p, resp |-> resp]
    /\ fnOut' = getWorkflowRunsForProject(p, limit, resp)
    /\ UNCHANGED <<env, file, file0, procVars, cycles>>

CallGetAvailableWorkflows ==
  \E p \in CallProjects, resp \in NameResponses :
    /\ fnName = "none"
    /\ fnName' = "getAvailableWorkflows"
    /\ fnIn' = [project |-> p, resp |-> resp]
    /\ fnOut' = getAvailableWorkflows(p, resp)
    /\ UNCHANGED <<env, file, file0, procVars, cycles>>

CallTriggerWorkflow ==
  \E p \in CallProjects, resp \in TriggerResponses :
    /\ fnName = "none"
    /\ fnName' = "triggerWorkflow"
    /\ fnIn' = [project |-> p, resp |-> resp]
    /\ fnOut' = triggerWorkflow(p, "ci", resp)
    /\ UNCHANGED <<env, file, file0, procVars, cycles>>

CallGetJobsForRun ==
  \E run \in CallRuns :
    \E resp \in JobResponses(run.Platform, 1) :
      /\ fnName = "none"
      /\ fnName' = "getJobsForRun"
      /\ fnIn' = [run |-> run, resp |-> resp]
      /\ fnOut' = getJobsForRun(run, resp)
      /\ UNCHANGED <<env, file, file0, procVars, cycles>>

CallGetPipelineJobs ==
  \E pipelineID \in {<<"7">>, <<"x">>}, resp \in GitLabJobResponses(MaxJobs) :
    /\ fnName = "none"
    /\ fnName' = "GetPipelineJobs"
    /\ fnIn' = [projectID |-> NameCD, pipelineID |-> pipelineID, resp |-> resp]
    /\ fnOut' = GitLabGetPipelineJobs(NameCD, pipelineID, resp)
    /\ UNCHANGED <<env, file, file0, procVars, cycles>>

CallColorWorkflowStatus ==
  \E status \in Statuses, conclusion \in Conclusions :
    /\ fnName = "none"
    /\ fnName' = "colorWorkflowStatus"
    /\ fnIn' = [status |-> status, conclusion |-> conclusion]
    /\ fnOut' = Result([workflow |-> colorWorkflowStatus(status, conclusion),
                        job |-> colorJobStatus(status, conclusion)],
                       NoErr, <<>>, <<>>)
    /\ UNCHANGED <<env, file, file0, procVars, cycles>>

CallParseRemoteURL ==
  \E url \in RemoteURLs :
    /\ fnName = "none"
    /\ fnName' = "parseRemoteURL"
    /\ fnIn' = [url |-> url]
    /\ fnOut' = Result(parseRemoteURL(url), parseRemoteURL(url).err, <<>>, <<>>)
    /\ UNCHANGED <<env, file, file0, procVars, cycles>>

CallsNext ==
  \/ CallParseRemoteURL
  \/ CallColorWorkflowStatus
  \/ CallGetWorkflowRunsForProject
  \/ CallGetAvailableWorkflows
  \/ CallTriggerWorkflow
  \/ CallGetJobsForRun
  \/ CallGetPipelineJobs

SpecCalls == CallsInit /\ [][CallsNext]_vars

\* ------------------------------------------------------------- persistence
JSONKeys == {"name", "owner", "repo", "platform", "remote_url", "added_at"}

\* The struct field a JSON key is tagged on (main.go, type Project)
FieldOf(p, key) ==
  CASE key = "name" -> p.Name
    [] key = "owner" -> p.Owner
    [] key = "repo" -> p.Repo
    [] key = "platform" -> p.Platform
    [] key = "remote_url" -> p.RemoteURL
    [] key = "added_at" -> p.AddedAt
    [] key = "access_token" -> p.AccessToken

\* json.Marshal of a Project: access_token is omitted when empty
MarshalProject(p) ==
  [key \in (IF p.AccessToken = "" THEN JSONKeys ELSE JSONKeys \cup {"access_token"})
     |-> FieldOf(p, key)]

\* The value of a key, the field's zero value when the key is missing
JSONGet(obj, key, zero) == IF key \in DOMAIN obj THEN obj[key] ELSE zero

UnmarshalProjectNoToken(obj) ==
  [Name |-> JSONGet(obj, "name", <<>>),
   Owner |-> JSONGet(obj, "owner", <<>>),
   Repo |-> JSONGet(obj, "repo", <<>>),
   Platform |-> JSONGet(obj, "platform", ""),
   RemoteURL |-> JSONGet(obj, "remote_url", ""),
   AddedAt |-> JSONGet(obj, "added_at", ""),
   AccessToken |-> ""]

\* json.Unmarshal into a Project
UnmarshalProject(obj) ==
  [Name |-> JSONGet(obj, "name", <<>>),
   Owner |-> JSONGet(obj, "owner", <<>>),
   Repo |-> JSONGet(obj, "repo", <<>>),
   Platform |-> JSONGet(obj, "platform", ""),
   RemoteURL |-> JSONGet(obj, "remote_url", ""),
   AddedAt |-> JSONGet(obj, "added_at", ""),
   AccessToken |-> JSONGet(obj, "access_token", "")]

\* loadProjects: no document gives no projects; an unreadable document is an
\* error and leaves config.Projects as it was; else the document's projects.
loadProjects(doc, current) ==
  CASE doc.state = "absent" -> [projects |-> <<>>, err |-> NoErr]
    [] doc.state = "corrupt" -> [projects |-> current, err |-> Err("load failed", "")]
    [] OTHER -> [projects |-> [k \in 1..Len(doc.projects) |->
                                 UnmarshalProject(doc.projects[k])],
                 err |-> NoErr]

\* A variant that writes the projects after those the document holds
saveProjectsAppended(ps) ==
  [state |-> "ok",
   projects |-> (IF file.state = "ok" THEN file.projects ELSE <<>>) \o
                [k \in 1..Len(ps) |-> MarshalProject(ps[k])],
   version |-> "1.0"]

\* saveProjects: the document written, every project and the version "1.0"
saveProjects(ps) ==
  [state |-> "ok", projects |-> [k \in 1..Len(ps) |-> MarshalProject(ps[k])],
   version |-> "1.0"]

\* The text of a project as a state document holds it
JSONProject(platform, owner, repo, token) ==
  LET base == [key \in JSONKeys |->
                 CASE key = "name" -> JoinSlash(owner, repo)
                   [] key = "owner" -> owner
                   [] key = "repo" -> repo
                   [] key = "platform" -> platform
                   [] key = "remote_url" -> "url"
                   [] key = "added_at" -> "t0"]
  IN IF token = "" THEN base
     ELSE [key \in JSONKeys \cup {"access_token"} |->
             IF key = "access_token" THEN token ELSE base[key]]

\* Sequences of at most n elements of S
SeqsUpTo(S, n) == UNION {[1..len -> S] : len \in 0..n}

\* Documents holding at most n of the given JSON projects
Documents(objs, n) ==
  {[state |-> "ok", projects |-> ps, version |-> "1.0"] : ps \in SeqsUpTo(objs, n)}

\* ------------------------------------------- load and save, one by one
\* loadProjects and saveProjects applied in turn to a document drawn at the
\* start, with nothing changing config.Projects in between.
StoredProjects ==
  {JSONProject("github", <<"a">>, <<"b">>, ""),
   JSONProject("gitlab", <<"c">>, <<"d">>, ""),
   JSONProject("gitlab", <<"c">>, <<"d">>, "secret"),
   JSONProject("bitbucket", <<"e">>, <<>>, "")}

StateInit ==
  /\ env = [v \in EnvNames |-> "UNSET"]
  /\ file \in {Absent} \cup Documents(StoredProjects, MaxProjects)
  /\ file0 = file
  /\ cycles = 0
  /\ ProcIdle
  /\ FnIdle

StateLoad ==
  /\ fnName \in {"none", "saveProjects"}
  /\ cycles < MaxCycles
  /\ fnName' = "loadProjects"
  /\ fnIn' = file
  /\ fnOut' = loadProjects(file, projects).err
  /\ projects' = loadProjects(file, projects).projects
  /\ UNCHANGED <<env, file, file0, cycles, pc, command, args, idx, allRuns,
                 results, rendered, selectedRun, selectedProject, workflows,
                 selectedWorkflow, listLimit, stdin, out, clients, net,
                 exitStatus>>

StateSave ==
  /\ fnName = "loadProjects"
  /\ fnName' = "saveProjects"
  /\ fnIn' = projects
  /\ fnOut' = NoErr
  /\ file' = saveProjects(projects)
  /\ cycles' = cycles + 1
  /\ UNCHANGED <<env, file0, procVars>>

StateNext == StateLoad \/ StateSave

SpecState == StateInit /\ [][StateNext]_vars

\* ------------------------------------------------------------- the process
\* One invocation of the tool: main loads the projects, runs one command and
\* returns.  Every action below is one function of main.go or workflows.go, up
\* to the point where it reads the terminal or returns.

\* A line of output: what was printed, about what, with which error
Msg(kind, subject, err) == [kind |-> kind, subject |-> subject, err |-> err]

\* The lines typed at a prompt, as bufio.Reader.ReadString returns them
InputLines ==
  {<<"q", "\n">>, <<"\n">>, <<" ", "\n">>, <<"0", "\n">>, <<"-", "1", "\n">>,
   <<"1", "\n">>, <<" ", "2", " ", "\n">>, <<"3", "\n">>, <<"9", "\n">>,
   <<"x", "\n">>, <<"1", "x", "\n">>}

\* What a read of the terminal gives: a line, or an error at end of input
Reads == {[err |-> FALSE, line |-> l] : l \in InputLines} \cup
         {[err |-> TRUE, line |-> <<>>]}

\* The projects an initial state document can hold: one per known platform
\* and one whose tag a hand edit made unknown
RegistryPool ==
  {JSONProject("github", <<"a">>, <<"b">>, ""),
   JSONProject("gitlab", <<"c">>, <<"d">>, ""),
   JSONProject("bitbucket", <<"e">>, <<"f">>, "")}

DistinctNames(ps) ==
  \A j, k \in 1..Len(ps) : j # k => ps[j]["name"] # ps[k]["name"]

InitialDocuments ==
  {Absent, Corrupt} \cup
  {d \in Documents(RegistryPool, MaxProjects) : DistinctNames(d.projects)}

\* The command lines: args[0] and args[1:]
CommandLines ==
  {[command |-> c, args |-> <<>>] :
     c \in {"", "watch", "start", "list", "projects", "remove", "help", "bogus"}}
  \cup {[command |-> "add", args |-> a] : a \in {<<>>, <<<<"p">>>>}}
  \cup {[command |-> "list", args |-> <<a>>] : a \in {<<"5">>, <<"x">>}}
  \cup {[command |-> "remove", args |-> <<a>>] : a \in {NameAB, NameCD, <<"z">>}}

\* The environments of the process: each token missing or present, the
\* GitHub one missing as an empty variable and the GitLab one as an unset one
ProcessEnvironments ==
  {e \in Environments : e["GITHUB_TOKEN"] # "UNSET" /\ e["GITLAB_TOKEN"] # ""}

Init ==
  /\ env \in ProcessEnvironments
  /\ file \in InitialDocuments
  /\ file0 = file
  /\ cycles = 0
  /\ FnIdle
  /\ \E cl \in CommandLines : command = cl.command /\ args = cl.args
  /\ pc = "main"
  /\ projects = <<>> /\ idx = 0 /\ allRuns = <<>> /\ results = <<>>
  /\ rendered = <<>> /\ selectedRun = <<>> /\ selectedProject = <<>>
  /\ workflows = <<>> /\ selectedWorkflow = "" /\ listLimit = 0
  /\ stdin = <<>> /\ out = <<>> /\ clients = <<>> /\ net = <<>> /\ exitStatus = "running"

\* The function returns to main, which returns: the process exits with 0
Return == pc' = "done" /\ exitStatus' = "0"

\* log.Fatal: the process exits with 1
Fatal == pc' = "done" /\ exitStatus' = "1"

\* main: load the projects (a failed load is a warning and an empty list),
\* then switch on the command
Main ==
  /\ pc = "main"
  /\ LET loaded == loadProjects(file, projects)
         warned == IF loaded.err # NoErr
                     THEN <<Msg("Warning: Failed to load projects", "", loaded.err)>>
                     ELSE <<>>
     IN /\ projects' = IF loaded.err # NoErr THEN <<>> ELSE loaded.projects
        /\ CASE command = "" ->
                  out' = warned \o <<Msg("Help", "", NoErr)>> /\ Return
             [] command \in {"watch", "start", "list", "projects"} ->
                  out' = warned /\ pc' = command /\ UNCHANGED exitStatus
             [] command = "add" /\ args = <<>> ->
                  out' = warned /\ pc' = "add_current" /\ UNCHANGED exitStatus
             [] command = "add" /\ args # <<>> ->
                  out' = warned /\ pc' = "add" /\ UNCHANGED exitStatus
             [] command = "remove" /\ args = <<>> ->
                  out' = warned \o <<Msg("Usage", "", NoErr)>> /\ Return
             [] command = "remove" /\ args # <<>> ->
                  out' = warned /\ pc' = "remove" /\ UNCHANGED exitStatus
             [] command = "help" ->
                  out' = warned \o <<Msg("Help", "", NoErr)>> /\ Return
             [] OTHER ->
                  out' = warned \o <<Msg("Unknown command", "", NoErr),
                                     Msg("Help", "", NoErr)>> /\ Return
  /\ UNCHANGED <<env, stdin, file, file0, cycles, fnVars, command, args, idx, allRuns,
                 results, rendered, selectedRun, selectedProject, workflows,
                 selectedWorkflow, listLimit, clients, net>>

\* Answers the remote can give the fan-out's next run listing: the runs of
\* the idx-th project have the ids 10 * idx + 1, ...
NextRunResponses == RunResponses(10 * idx, MaxRuns - Len(allRuns))

\* What the fan-out records of one getWorkflowRunsForProject call
Fetched(project, r) == [project |-> project, err |-> r.err, runs |-> r.val]

watchLessOldestFirst(a, b) == a.CreatedAt < b.CreatedAt

\* The less function of watchWorkflows' sort.Slice: a was created after b
watchLess(a, b) == a.CreatedAt > b.CreatedAt

\* The less function of listWorkflows' sort.Slice: a was created after b
listLess(a, b) == a.CreatedAt > b.CreatedAt

\* The rearrangements of a sequence
Rearrangements(s) ==
  {[k \in 1..Len(s) |-> s[f[k]]] :
     f \in {g \in [1..Len(s) -> 1..Len(s)] :
              \A j, k \in 1..Len(s) : j # k => g[j] # g[k]}}

\* sort.Slice(allRuns, less) of watchWorkflows: allRuns rearranged so that no
\* element is less than one before it.  The sort is not stable: elements of
\* which neither is less than the other may end in any order.
watchSortSlice(s) ==
  {t \in Rearrangements(s) :
     \A j, k \in 1..Len(t) : j < k => ~watchLess(t[k], t[j])}

\* sort.Slice(allRuns, less) of listWorkflows, likewise
listSortSlice(s) ==
  {t \in Rearrangements(s) :
     \A j, k \in 1..Len(t) : j < k => ~listLess(t[k], t[j])}

\* watchWorkflows up to the loop: nothing to do without projects
WatchStart ==
  /\ pc = "watch"
  /\ IF Len(projects) = 0
       THEN /\ out' = Append(out, Msg("No projects tracked", "", NoErr))
            /\ Return
            /\ UNCHANGED idx
       ELSE /\ out' = Append(out, Msg("Watching workflows", "", NoErr))
            /\ idx' = 1
            /\ pc' = "watch_collect"
            /\ UNCHANGED exitStatus
  /\ UNCHANGED <<env, stdin, file, file0, cycles, fnVars, command, args, projects,
                 allRuns, results, rendered, selectedRun, selectedProject,
                 workflows, selectedWorkflow, listLimit, clients, net>>

WatchCollectAbortOnError ==
  /\ pc = "watch_collect"
  /\ idx <= Len(projects)
  /\ \E resp \in NextRunResponses :
       LET r == getWorkflowRunsForProject(projects[idx], WatchLimit, resp)
       IN /\ results' = Append(results, Fetched(projects[idx], r))
          /\ clients' = clients \o r.clients
          /\ net' = net \o r.calls
          /\ IF r.err # NoErr
               THEN /\ out' = Append(out, Msg("Failed to get workflows",
                                              projects[idx].Name, r.err))
                    /\ idx' = Len(projects) + 1
                    /\ UNCHANGED allRuns
               ELSE /\ allRuns' = allRuns \o r.val
                    /\ idx' = idx + 1
                    /\ UNCHANGED out
  /\ UNCHANGED <<env, stdin, file, file0, cycles, fnVars, pc, command, args, projects,
                 rendered, selectedRun, selectedProject, workflows,
                 selectedWorkflow, listLimit, exitStatus>>

\* One pass of watchWorkflows' loop: a failing project is reported and
\* skipped, the runs of another are appended
WatchCollect ==
  /\ pc = "watch_collect"
  /\ idx <= Len(projects)
  /\ \E resp \in NextRunResponses :
       LET r == getWorkflowRunsForProject(projects[idx], WatchLimit, resp)
       IN /\ results' = Append(results, Fetched(projects[idx], r))
          /\ clients' = clients \o r.clients
          /\ net' = net \o r.calls
          /\ IF r.err # NoErr
               THEN /\ out' = Append(out, Msg("Failed to get workflows",
                                              projects[idx].Name, r.err))
                    /\ UNCHANGED allRuns
               ELSE /\ allRuns' = allRuns \o r.val
                    /\ UNCHANGED out
  /\ idx' = idx + 1
  /\ UNCHANGED <<env, stdin, file, file0, cycles, fnVars, pc, command, args, projects,
                 rendered, selectedRun, selectedProject, workflows,
                 selectedWorkflow, listLimit, exitStatus>>

\* A variant that shows the details of the newest run without asking
WatchMergeShowsNewest ==
  /\ pc = "watch_collect"
  /\ idx > Len(projects)
  /\ IF Len(allRuns) = 0
       THEN /\ out' = Append(out, Msg("No workflow runs found", "", NoErr))
            /\ Return
            /\ UNCHANGED <<allRuns, rendered, selectedRun>>
       ELSE /\ allRuns' \in watchSortSlice(allRuns)
            /\ rendered' = allRuns'
            /\ out' = out \o <<Msg("Runs", "", NoErr), Msg("Select a workflow run", "", NoErr)>>
            /\ selectedRun' = <<allRuns'[1]>>
            /\ pc' = "watch_details"
            /\ UNCHANGED exitStatus
  /\ UNCHANGED <<env, stdin, file, file0, cycles, fnVars, command, args, projects, idx,
                 results, selectedProject, workflows,
                 selectedWorkflow, listLimit, clients, net>>

\* watchWorkflows after the loop: no runs ends the flow; else the runs are
\* sorted, displayed and the prompt is printed
WatchMerge ==
  /\ pc = "watch_collect"
  /\ idx > Len(projects)
  /\ IF Len(allRuns) = 0
       THEN /\ out' = Append(out, Msg("No workflow runs found", "", NoErr))
            /\ Return
            /\ UNCHANGED <<allRuns, rendered>>
       ELSE /\ allRuns' \in watchSortSlice(allRuns)
            /\ rendered' = allRuns'
            /\ out' = out \o <<Msg("Runs", "", NoErr), Msg("Select a workflow run", "", NoErr)>>
            /\ pc' = "watch_select"
            /\ UNCHANGED exitStatus
  /\ UNCHANGED <<env, stdin, file, file0, cycles, fnVars, command, args, projects, idx,
                 results, selectedRun, selectedProject, workflows,
                 selectedWorkflow, listLimit, clients, net>>

\* The test watchWorkflows puts the typed text to: no number, or a number that
\* is not the position of a listed run
InvalidRunIndex(input, n) ==
  LET runIndex == Atoi(input)
  IN ~runIndex.ok \/ runIndex.val < 1 \/ runIndex.val > n

\* A variant that ends the flow on an invalid selection without saying so
WatchSelectQuietInvalid ==
  /\ pc = "watch_select"
  /\ \E rd \in Reads :
       LET input == TrimSpace(rd.line)
           runIndex == Atoi(input)
       IN /\ stdin' = Append(stdin, rd)
          /\ IF rd.err
               THEN /\ out' = Append(out, Msg("Fatal", "", Err("read failed", "")))
                    /\ Fatal
                    /\ UNCHANGED selectedRun
             ELSE IF input = <<"q">> \/ input = <<>>
               THEN /\ Return
                    /\ UNCHANGED <<out, selectedRun>>
             ELSE IF InvalidRunIndex(input, Len(allRuns))
               THEN /\ Return
                    /\ UNCHANGED <<out, selectedRun>>
             ELSE /\ selectedRun' = <<allRuns[runIndex.val]>>
                  /\ pc' = "watch_details"
                  /\ UNCHANGED <<out, exitStatus>>
  /\ UNCHANGED <<env, file, file0, cycles, fnVars, command, args, projects, idx,
                 allRuns, results, rendered, selectedProject, workflows,
                 selectedWorkflow, listLimit, clients, net>>

\* A variant that asks the first run's platform for its runs again while the
\* selection is read
WatchSelectRefreshes ==
  /\ pc = "watch_select"
  /\ \E rd \in Reads :
       LET input == TrimSpace(rd.line)
           runIndex == Atoi(input)
       IN /\ stdin' = Append(stdin, rd)
          /\ net' = Append(net, Call(allRuns[1].Platform, "ListRuns",
                                      allRuns[1].Project, Itoa(WatchLimit)))
          /\ IF rd.err
               THEN /\ out' = Append(out, Msg("Fatal", "", Err("read failed", "")))
                    /\ Fatal
                    /\ UNCHANGED selectedRun
             ELSE IF input = <<"q">> \/ input = <<>>
               THEN /\ Return
                    /\ UNCHANGED <<out, selectedRun>>
             ELSE IF InvalidRunIndex(input, Len(allRuns))
               THEN /\ out' = Append(out, Msg("Invalid selection", "", NoErr))
                    /\ Return
                    /\ UNCHANGED selectedRun
             ELSE /\ selectedRun' = <<allRuns[runIndex.val]>>
                  /\ pc' = "watch_details"
                  /\ UNCHANGED <<out, exitStatus>>
  /\ UNCHANGED <<env, file, file0, cycles, fnVars, command, args, projects, idx,
                 allRuns, results, rendered, selectedProject, workflows,
                 selectedWorkflow, listLimit, clients>>

\* watchWorkflows reading the selection: a failed read is fatal, "q" or an
\* empty line ends the flow, a number of the list selects its run, anything
\* else is an invalid selection
WatchSelect ==
  /\ pc = "watch_select"
  /\ \E rd \in Reads :
       LET input == TrimSpace(rd.line)
           runIndex == Atoi(input)
       IN /\ stdin' = Append(stdin, rd)
          /\ IF rd.err
               THEN /\ out' = Append(out, Msg("Fatal", "", Err("read failed", "")))
                    /\ Fatal
                    /\ UNCHANGED selectedRun
             ELSE IF input = <<"q">> \/ input = <<>>
               THEN /\ Return
                    /\ UNCHANGED <<out, selectedRun>>
             ELSE IF InvalidRunIndex(input, Len(allRuns))
               THEN /\ out' = Append(out, Msg("Invalid selection", "", NoErr))
                    /\ Return
                    /\ UNCHANGED selectedRun
             ELSE /\ selectedRun' = <<allRuns[runIndex.val]>>
                  /\ pc' = "watch_details"
                  /\ UNCHANGED <<out, exitStatus>>
  /\ UNCHANGED <<env, file, file0, cycles, fnVars, command, args, projects, idx,
                 allRuns, results, rendered, selectedProject, workflows,
                 selectedWorkflow, listLimit, clients, net>>

\* showWorkflowDetails: the run's details, then its jobs or why there are none
ShowWorkflowDetails ==
  /\ pc = "watch_details"
  /\ \E resp \in DetailResponses(selectedRun[1].Platform) :
       LET r == getJobsForRun(selectedRun[1], resp)
           header == Msg("Workflow Details", selectedRun[1].Project, NoErr)
       IN /\ clients' = clients \o r.clients
          /\ net' = net \o r.calls
          /\ out' = out \o
               <<header,
                 IF r.err # NoErr THEN Msg("Failed to get jobs", "", r.err)
                 ELSE IF Len(r.val) = 0 THEN Msg("No jobs found", "", NoErr)
                 ELSE Msg("Jobs", "", NoErr)>>
  /\ Return
  /\ UNCHANGED <<env, stdin, file, file0, cycles, fnVars, command, args, projects, idx,
                 allRuns, results, rendered, selectedRun, selectedProject,
                 workflows, selectedWorkflow, listLimit>>

\* listWorkflows up to the loop: nothing to do without projects; the limit is
\* the first argument when it is a number, 20 otherwise
ListStart ==
  /\ pc = "list"
  /\ IF Len(projects) = 0
       THEN /\ out' = Append(out, Msg("No projects tracked", "", NoErr))
            /\ Return
            /\ UNCHANGED <<idx, listLimit>>
       ELSE /\ listLimit' = IF Len(args) > 0 /\ Atoi(args[1]).ok
                          THEN Atoi(args[1]).val ELSE DefaultListLimit
            /\ out' = Append(out, Msg("Recent workflow runs", "", NoErr))
            /\ idx' = 1
            /\ pc' = "list_collect"
            /\ UNCHANGED exitStatus
  /\ UNCHANGED <<env, stdin, file, file0, cycles, fnVars, command, args, projects,
                 allRuns, results, rendered, selectedRun, selectedProject,
                 workflows, selectedWorkflow, clients, net>>

\* A variant that asks a failing project once more
ListCollectRetry ==
  /\ pc = "list_collect"
  /\ idx <= Len(projects)
  /\ \E resp \in NextRunResponses :
       LET r == getWorkflowRunsForProject(projects[idx], listLimit, resp)
       IN /\ results' = Append(results, Fetched(projects[idx], r))
          /\ clients' = clients \o r.clients
          /\ net' = net \o r.calls
          /\ IF r.err # NoErr
               THEN /\ out' = Append(out, Msg("Failed to get workflows",
                                              projects[idx].Name, r.err))
                    /\ UNCHANGED allRuns
               ELSE /\ allRuns' = allRuns \o r.val
                    /\ UNCHANGED out
  /\ idx' = IF results'[idx].err # NoErr /\ Len(results) < idx THEN idx ELSE idx + 1
  /\ UNCHANGED <<env, stdin, file, file0, cycles, fnVars, pc, command, args, projects,
                 rendered, selectedRun, selectedProject, workflows,
                 selectedWorkflow, listLimit, exitStatus>>

\* One pass of listWorkflows' loop: a failing project is reported and
\* skipped, the runs of another are appended
ListCollect ==
  /\ pc = "list_collect"
  /\ idx <= Len(projects)
  /\ \E resp \in NextRunResponses :
       LET r == getWorkflowRunsForProject(projects[idx], listLimit, resp)
       IN /\ results' = Append(results, Fetched(projects[idx], r))
          /\ clients' = clients \o r.clients
          /\ net' = net \o r.calls
          /\ IF r.err # NoErr
               THEN /\ out' = Append(out, Msg("Failed to get workflows",
                                              projects[idx].Name, r.err))
                    /\ UNCHANGED allRuns
               ELSE /\ allRuns' = allRuns \o r.val
                    /\ UNCHANGED out
  /\ idx' = idx + 1
  /\ UNCHANGED <<env, stdin, file, file0, cycles, fnVars, pc, command, args, projects,
                 rendered, selectedRun, selectedProject, workflows,
                 selectedWorkflow, listLimit, exitStatus>>

\* listWorkflows after the loop: no runs ends the flow; else the runs are
\* sorted and displayed
ListMerge ==
  /\ pc = "list_collect"
  /\ idx > Len(projects)
  /\ IF Len(allRuns) = 0
       THEN /\ out' = Append(out, Msg("No workflow runs found", "", NoErr))
            /\ UNCHANGED <<allRuns, rendered>>
       ELSE /\ allRuns' \in listSortSlice(allRuns)
            /\ rendered' = allRuns'
            /\ out' = Append(out, Msg("Runs", "", NoErr))
  /\ Return
  /\ UNCHANGED <<env, stdin, file, file0, cycles, fnVars, command, args, projects, idx,
                 results, selectedRun, selectedProject, workflows,
                 selectedWorkflow, listLimit, clients, net>>

\* The 1-based index a menu reads: 0 when the read fails, the line is no
\* number or the number is not one of 1..n (selectProject, selectWorkflow)
MenuIndex(rd, n) ==
  LET index == Atoi(TrimSpace(rd.line))
  IN IF rd.err \/ ~index.ok \/ index.val < 1 \/ index.val > n THEN 0
     ELSE index.val

\* startWorkflow up to the workflow listing: nothing to do without projects;
\* selectProject takes the only project, or prints the menu and reads a
\* number, and returns nothing on any other input
StartSelectProject ==
  /\ pc = "start"
  /\ IF Len(projects) = 0
       THEN /\ out' = Append(out, Msg("No projects tracked", "", NoErr))
            /\ Return
            /\ UNCHANGED <<selectedProject, stdin>>
     ELSE IF Len(projects) = 1
       THEN /\ selectedProject' = <<projects[1]>>
            /\ pc' = "start_workflows"
            /\ UNCHANGED <<out, exitStatus, stdin>>
     ELSE \E rd \in Reads :
            /\ out' = Append(out, Msg("Select a project", "", NoErr))
            /\ stdin' = Append(stdin, rd)
            /\ IF MenuIndex(rd, Len(projects)) = 0
                 THEN Return /\ UNCHANGED selectedProject
                 ELSE /\ selectedProject' = <<projects[MenuIndex(rd, Len(projects))]>>
                      /\ pc' = "start_workflows"
                      /\ UNCHANGED exitStatus
  /\ UNCHANGED <<env, file, file0, cycles, fnVars, command, args, projects, idx,
                 allRuns, results, rendered, selectedRun, workflows,
                 selectedWorkflow, listLimit, clients, net>>

\* startWorkflow listing the workflows: a failure or an empty list ends the
\* flow with a message
StartGetWorkflows ==
  /\ pc = "start_workflows"
  /\ \E resp \in NameResponses :
       LET r == getAvailableWorkflows(selectedProject[1], resp)
       IN /\ clients' = clients \o r.clients
          /\ net' = net \o r.calls
          /\ IF r.err # NoErr
               THEN /\ out' = Append(out, Msg("Failed to get workflows", "", r.err))
                    /\ Return
                    /\ UNCHANGED workflows
             ELSE IF Len(r.val) = 0
               THEN /\ out' = Append(out, Msg("No workflows available",
                                              selectedProject[1].Name, NoErr))
                    /\ Return
                    /\ UNCHANGED workflows
             ELSE /\ workflows' = r.val
                  /\ pc' = "start_select"
                  /\ UNCHANGED <<out, exitStatus>>
  /\ UNCHANGED <<env, stdin, file, file0, cycles, fnVars, command, args, projects, idx,
                 allRuns, results, rendered, selectedRun, selectedProject,
                 selectedWorkflow, listLimit>>

\* selectWorkflow and the test of its result: the only workflow, or the one
\* whose number is read; an empty name ends the flow
StartSelectWorkflow ==
  /\ pc = "start_select"
  /\ \E rd \in (IF Len(workflows) = 1 THEN {[err |-> FALSE, line |-> <<"1", "\n">>]}
                ELSE Reads) :
       LET index == MenuIndex(rd, Len(workflows))
           chosen == IF index = 0 THEN "" ELSE workflows[index]
       IN /\ out' = IF Len(workflows) = 1 THEN out
                    ELSE Append(out, Msg("Select a workflow", "", NoErr))
          /\ stdin' = IF Len(workflows) = 1 THEN stdin ELSE Append(stdin, rd)
          /\ selectedWorkflow' = chosen
          /\ IF chosen = ""
               THEN Return
               ELSE pc' = "start_trigger" /\ UNCHANGED exitStatus
  /\ UNCHANGED <<env, file, file0, cycles, fnVars, command, args, projects, idx,
                 allRuns, results, rendered, selectedRun, selectedProject,
                 workflows, listLimit, clients, net>>

\* A variant that prints the success whatever the trigger returned
StartTriggerAlwaysSuccess ==
  /\ pc = "start_trigger"
  /\ \E resp \in TriggerResponses :
       LET r == triggerWorkflow(selectedProject[1], selectedWorkflow, resp)
       IN /\ results' = Append(results, Fetched(selectedProject[1], r))
          /\ clients' = clients \o r.clients
          /\ net' = net \o r.calls
          /\ out' = Append(out,
               Msg("Triggered workflow", selectedProject[1].Name, NoErr))
  /\ Return
  /\ UNCHANGED <<env, stdin, file, file0, cycles, fnVars, command, args, projects, idx,
                 allRuns, rendered, selectedRun, selectedProject,
                 workflows, selectedWorkflow, listLimit>>

\* startWorkflow triggering: the failure is printed, or the success
StartTrigger ==
  /\ pc = "start_trigger"
  /\ \E resp \in TriggerResponses :
       LET r == triggerWorkflow(selectedProject[1], selectedWorkflow, resp)
       IN /\ results' = Append(results, Fetched(selectedProject[1], r))
          /\ clients' = clients \o r.clients
          /\ net' = net \o r.calls
          /\ out' = Append(out,
               IF r.err # NoErr THEN Msg("Failed to trigger workflow", "", r.err)
               ELSE Msg("Triggered workflow", selectedProject[1].Name, NoErr))
  /\ Return
  /\ UNCHANGED <<env, stdin, file, file0, cycles, fnVars, command, args, projects, idx,
                 allRuns, rendered, selectedRun, selectedProject,
                 workflows, selectedWorkflow, listLimit>>

\* The directory an add looks at: whether its path resolves, whether it
\* holds a .git directory, whether git prints the URL of origin, and the URL
Directory(resolved, isRepo, hasRemote, url) ==
  [resolved |-> resolved, isRepo |-> isRepo, hasRemote |-> hasRemote, url |-> url]

AddURLs ==
  {"https://github.com/a/b.git", "https://gitlab.com/c/d.git",
   "https://gitlab.com/a/b.git", "git@gitlab.com:c/d.git"}

Directories ==
  {Directory(FALSE, FALSE, FALSE, ""), Directory(TRUE, FALSE, FALSE, ""),
   Directory(TRUE, TRUE, FALSE, "")} \cup
  {Directory(TRUE, TRUE, TRUE, url) : url \in AddURLs}

\* The Project an add builds of a parsed remote URL
NewProject(parsed, url) ==
  [Name |-> JoinSlash(parsed.owner, parsed.repo), Owner |-> parsed.owner,
   Repo |-> parsed.repo, Platform |-> parsed.platform, RemoteURL |-> url,
   AddedAt |-> "t1", AccessToken |-> ""]

\* A variant of the test below that takes no name for tracked
TrackedNever(ps, name) == FALSE

\* A project of the name is in the list
Tracked(ps, name) == \E k \in 1..Len(ps) : ps[k].Name = name

\* The body addCurrentProject and addProject share: a directory that does not
\* resolve, is no repository, has no origin or an origin that does not parse
\* is fatal; a project whose name is tracked is a message; else the project
\* is appended and the projects are saved (a failed save is fatal)
AddFrom(dir) ==
  LET parsed == parseRemoteURL(dir.url)
      project == NewProject(parsed, dir.url)
      fatal(what) == /\ out' = Append(out, Msg("Fatal", "", Err(what, "")))
                     /\ Fatal
                     /\ UNCHANGED <<projects, file>>
  IN IF ~dir.resolved THEN fatal("Failed to resolve path")
     ELSE IF ~dir.isRepo THEN fatal("not a git repository")
     ELSE IF ~dir.hasRemote THEN fatal("Failed to get git remote URL")
     ELSE IF parsed.err # NoErr THEN fatal("Failed to parse remote URL")
     ELSE IF Tracked(projects, project.Name)
       THEN /\ out' = Append(out, Msg("Project is already tracked", project.Name, NoErr))
            /\ Return
            /\ UNCHANGED <<projects, file>>
     ELSE /\ projects' = Append(projects, project)
          /\ \E saved \in BOOLEAN :
               IF saved
                 THEN /\ file' = saveProjects(projects')
                      /\ out' = Append(out, Msg("Added project", project.Name, NoErr))
                      /\ Return
                 ELSE /\ out' = Append(out, Msg("Fatal", "",
                                                Err("Failed to save project", "")))
                      /\ Fatal
                      /\ UNCHANGED file

\* addCurrentProject: the working directory is added
AddCurrentProject ==
  /\ pc = "add_current"
  /\ \E dir \in Directories : AddFrom(dir)
  /\ UNCHANGED <<env, stdin, file0, cycles, fnVars, command, args, idx, allRuns,
                 results, rendered, selectedRun, selectedProject, workflows,
                 selectedWorkflow, listLimit, clients, net>>

\* addProject: the directory of the path given is added
AddProject ==
  /\ pc = "add"
  /\ \E dir \in Directories : AddFrom(dir)
  /\ UNCHANGED <<env, stdin, file0, cycles, fnVars, command, args, idx, allRuns,
                 results, rendered, selectedRun, selectedProject, workflows,
                 selectedWorkflow, listLimit, clients, net>>

\* A variant that forgets the projects of unsupported platforms it lists
ListProjectsPrunes ==
  /\ pc = "projects"
  /\ out' = Append(out, IF Len(projects) = 0
                          THEN Msg("No projects tracked", "", NoErr)
                          ELSE Msg("Tracked Projects", "", NoErr))
  /\ projects' = SelectSeq(projects, LAMBDA q : q.Platform \in KnownPlatforms)
  /\ Return
  /\ UNCHANGED <<env, stdin, file, file0, cycles, fnVars, command, args, idx,
                 allRuns, results, rendered, selectedRun, selectedProject,
                 workflows, selectedWorkflow, listLimit, clients, net>>

\* listProjects
ListProjects ==
  /\ pc = "projects"
  /\ out' = Append(out, IF Len(projects) = 0
                          THEN Msg("No projects tracked", "", NoErr)
                          ELSE Msg("Tracked Projects", "", NoErr))
  /\ Return
  /\ UNCHANGED <<env, stdin, file, file0, cycles, fnVars, command, args, projects, idx,
                 allRuns, results, rendered, selectedRun, selectedProject,
                 workflows, selectedWorkflow, listLimit, clients, net>>

\* The position of the first project with the name, 0 when there is none
IndexOfName(ps, name) ==
  IF \E k \in 1..Len(ps) : ps[k].Name = name
    THEN CHOOSE k \in 1..Len(ps) :
           ps[k].Name = name /\ \A j \in 1..(k - 1) : ps[j].Name # name
    ELSE 0

\* A variant that fills the k-th place with the last element
RemoveAtSwap(s, k) == [j \in 1..(Len(s) - 1) |-> IF j = k THEN s[Len(s)] ELSE s[j]]

\* s without its k-th element
RemoveAt(s, k) == SubSeq(s, 1, k - 1) \o SubSeq(s, k + 1, Len(s))

\* removeProject: the first project with the name is removed and the
\* projects are saved (a failed save is fatal and leaves the document); no
\* such project is a message
RemoveProject ==
  /\ pc = "remove"
  /\ LET k == IndexOfName(projects, args[1])
     IN IF k = 0
          THEN /\ out' = Append(out, Msg("Project not found", args[1], NoErr))
               /\ Return
               /\ UNCHANGED <<projects, file>>
          ELSE /\ projects' = RemoveAt(projects, k)
               /\ \E saved \in BOOLEAN :
                    IF saved
                      THEN /\ file' = saveProjects(projects')
                           /\ out' = Append(out, Msg("Removed project", args[1], NoErr))
                           /\ Return
                      ELSE /\ out' = Append(out, Msg("Fatal", "",
                                                     Err("Failed to save projects", "")))
                           /\ Fatal
                           /\ UNCHANGED file
  /\ UNCHANGED <<env, stdin, file0, cycles, fnVars, command, args, idx, allRuns,
                 results, rendered, selectedRun, selectedProject, workflows,
                 selectedWorkflow, listLimit, clients, net>>

Next ==
  \/ Main
  \/ WatchStart
  \/ WatchCollect
  \/ WatchMerge
  \/ WatchSelect
  \/ ShowWorkflowDetails
  \/ ListStart
  \/ ListCollect
  \/ ListMerge
  \/ StartSelectProject
  \/ StartGetWorkflows
  \/ StartSelectWorkflow
  \/ StartTrigger
  \/ ListProjects
  \/ AddCurrentProject
  \/ AddProject
  \/ RemoveProject

Spec == Init /\ [][Next]_vars

\* --------------------------------------- the merge under registry orders
\* The loop and the sort of watchWorkflows applied to the run lists of two
\* projects, once with the projects in one order and once in the other.

\* The run lists two projects return, at most MaxRuns runs together
MergeInputs ==
  UNION {{<<GitHubGetWorkflowRuns(<<"a">>, <<"b">>, WatchLimit, ra).val,
            GitLabGetPipelineRuns(NameCD, WatchLimit, rb).val>> :
            rb \in {r \in RunResponses(20, MaxRuns - Len(ra.runs)) : ~r.fail}} :
         ra \in {r \in RunResponses(10, MaxRuns) : ~r.fail}}

\* allRuns after the loop over the lists: each appended in turn
RECURSIVE appendAll(_)
appendAll(lists) ==
  IF lists = <<>> THEN <<>> ELSE lists[1] \o appendAll(Tail(lists))

\* What watchWorkflows can hand to displayWorkflowRuns for the lists
mergedRuns(lists) == watchSortSlice(appendAll(lists))

MergeInit ==
  /\ env = [v \in EnvNames |-> "tok"]
  /\ file = Absent
  /\ file0 = file
  /\ cycles = 0
  /\ ProcIdle
  /\ FnIdle

CallMergeOrders ==
  \E lists \in MergeInputs :
    \E first \in mergedRuns(lists), second \in mergedRuns(<<lists[2], lists[1]>>) :
      /\ fnName = "none"
      /\ fnName' = "mergeOrders"
      /\ fnIn' = [lists |-> lists]
      /\ fnOut' = Result([first |-> first, second |-> second], NoErr, <<>>, <<>>)
      /\ UNCHANGED <<env, file, file0, procVars, cycles>>

MergeNext == CallMergeOrders

SpecMerge == MergeInit /\ [][MergeNext]_vars

\* ------------------------------------------ invocations, one after another
\* add and remove invoked one after another on the same state file: each
\* invocation is a process of its own, which loads the document the one
\* before left.
MaxInvocations == 3

RegistryCommandLines ==
  {cl \in CommandLines : cl.command \in {"add", "remove"} /\ cl.args # <<>>}
  \cup {[command |-> "add", args |-> <<>>]}

RegistryInit ==
  /\ env = [v \in EnvNames |-> "UNSET"]
  /\ file \in InitialDocuments \ {Corrupt}
  /\ file0 = file
  /\ cycles = 0
  /\ FnIdle
  /\ \E cl \in RegistryCommandLines : command = cl.command /\ args = cl.args
  /\ pc = "main"
  /\ projects = <<>> /\ idx = 0 /\ allRuns = <<>> /\ results = <<>>
  /\ rendered = <<>> /\ selectedRun = <<>> /\ selectedProject = <<>>
  /\ workflows = <<>> /\ selectedWorkflow = "" /\ listLimit = 0
  /\ stdin = <<>> /\ out = <<>> /\ clients = <<>> /\ net = <<>> /\ exitStatus = "running"

\* The next invocation: a new process with a new command line
Invoke ==
  /\ pc = "done"
  /\ cycles + 1 < MaxInvocations
  /\ cycles' = cycles + 1
  /\ file0' = file
  /\ \E cl \in RegistryCommandLines : command' = cl.command /\ args' = cl.args
  /\ pc' = "main"
  /\ projects' = <<>>
  /\ out' = <<>>
  /\ exitStatus' = "running"
  /\ UNCHANGED <<env, file, fnVars, idx, allRuns, results, rendered, selectedRun,
                 selectedProject, workflows, selectedWorkflow, listLimit, stdin,
                 clients, net>>

RegistryNext ==
  \/ Main
  \/ AddCurrentProject
  \/ AddProject
  \/ RemoveProject
  \/ Invoke

SpecRegistry == RegistryInit /\ [][RegistryNext]_vars

\* ================================================================== claims
DispatchOps ==
  {"getWorkflowRunsForProject", "getAvailableWorkflows", "triggerWorkflow"}

\* The Project a function application dispatched on, <<>> when it built none
\* (getJobsForRun builds its Project only after the split into two parts).
FnProject ==
  IF fnName \in DispatchOps THEN <<fnIn.project>>
  ELSE IF fnName = "getJobsForRun" /\ Len(Split(fnIn.run.Project, "/")) = 2
    THEN <<RunProject(fnIn.run)>>
  ELSE <<>>

TokenVar(platform) == IF platform = "github" THEN "GITHUB_TOKEN" ELSE "GITLAB_TOKEN"

CredentialAbsent(platform) == env[TokenVar(platform)] \in {"UNSET", ""}

AllTokensSet == \A v \in EnvNames : env[v] = "tok"

\* C3: every dispatch operation (list runs, list available workflows, trigger,
\* list jobs for a run) applied to a Project whose platform is neither "github"
\* nor "gitlab" fails with the unsupported-platform error, constructs no client
\* and issues no remote call.
C3_UnsupportedPlatformFailsLocally ==
  \A k \in 1..Len(FnProject) :
    FnProject[k].Platform \notin KnownPlatforms =>
      /\ fnOut.err = Err("unsupported platform", FnProject[k].Platform)
      /\ fnOut.clients = <<>>
      /\ fnOut.calls = <<>>

\* C3 witness: with both tokens set, the job listing of a run tagged
\* "bitbucket" whose project string is a/b ended with the unsupported-platform
\* error.
C3_Witness ==
  /\ fnName = "getJobsForRun"
  /\ AllTokensSet
  /\ fnIn.run.Platform = "bitbucket"
  /\ fnIn.run.Project = NameAB
  /\ fnOut.err.kind = "unsupported platform"

\* C4: every Job the GitLab client's job listing produces has exactly one
\* Step, whose status, conclusion, startedAt and completedAt equal the Job's
\* own (absent where the Job's is absent).
GitLabJobsListed ==
  \/ fnName = "GetPipelineJobs"
  \/ fnName = "getJobsForRun" /\ fnOut.clients = <<"gitlab">>

C4_GitLabJobHasOneMirroringStep ==
  GitLabJobsListed =>
    \A k \in 1..Len(fnOut.val) :
      LET job == fnOut.val[k]
      IN /\ Len(job.Steps) = 1
         /\ job.Steps[1].Status = job.Status
         /\ job.Steps[1].Conclusion = job.Conclusion
         /\ job.Steps[1].StartedAt = job.StartedAt
         /\ job.Steps[1].CompletedAt = job.CompletedAt

\* C4 witness: a listing of two jobs, the first without timestamps and the
\* second with both.
C4_Witness ==
  /\ fnName = "GetPipelineJobs"
  /\ Len(fnOut.val) = 2
  /\ fnOut.val[1].StartedAt = <<>> /\ fnOut.val[1].CompletedAt = <<>>
  /\ fnOut.val[2].StartedAt = <<1>> /\ fnOut.val[2].CompletedAt = <<2>>
  /\ fnOut.val[2].Steps[1].CompletedAt = <<2>>

\* A project string of the form owner/repo: two parts, neither empty
WellFormedIdentity(s) ==
  /\ Len(Split(s, "/")) = 2
  /\ Split(s, "/")[1] # <<>>
  /\ Split(s, "/")[2] # <<>>

\* C9: the job listing of a run whose project string does not split on "/"
\* into exactly two non-empty parts fails with the malformed-identity error,
\* constructs no client and issues no remote call.
C9_MalformedIdentityRejected ==
  fnName = "getJobsForRun" /\ ~WellFormedIdentity(fnIn.run.Project) =>
    /\ fnOut.err.kind = "invalid project format"
    /\ fnOut.clients = <<>>
    /\ fnOut.calls = <<>>

\* C10: when the token of a platform is empty or unset, a dispatch operation
\* that reaches that platform's client constructor fails with the error naming
\* the platform's environment variable, and no dispatch operation issues a
\* remote call to that platform.
C10_MissingCredentialFailsConstruction ==
  \A pf \in KnownPlatforms :
    CredentialAbsent(pf) /\ fnName \in DispatchOps \cup {"getJobsForRun"} =>
      /\ \A k \in 1..Len(fnOut.calls) : fnOut.calls[k].platform # pf
      /\ \A k \in 1..Len(fnOut.clients) : fnOut.clients[k] # pf
      /\ \A k \in 1..Len(FnProject) :
           FnProject[k].Platform = pf =>
             fnOut.err = Err("environment variable not set", TokenVar(pf))

\* C10 witness: GITHUB_TOKEN is set but empty, GITLAB_TOKEN is set, and a
\* trigger on a GitHub project ended with the error naming GITHUB_TOKEN.
C10_Witness ==
  /\ fnName = "triggerWorkflow"
  /\ env["GITHUB_TOKEN"] = "" /\ env["GITLAB_TOKEN"] = "tok"
  /\ fnIn.project.Platform = "github"
  /\ fnOut.err.subject = "GITHUB_TOKEN"
  /\ fnOut.calls = <<>>

\* C6: after any number of load-then-save cycles with no mutation in between,
\* the persisted document holds the projects it held at the start, in the same
\* order and with every field (key and value) unchanged.
C6_LoadSaveIdempotent ==
  cycles > 0 =>
    /\ file.state = "ok"
    /\ file.projects = file0.projects

\* C6 witness: two load-then-save cycles over a document of two projects, one
\* of them carrying an access token.
C6_Witness ==
  /\ cycles = 2
  /\ file0.state = "ok"
  /\ Len(file0.projects) = 2
  /\ "access_token" \in DOMAIN file0.projects[1]
  /\ "access_token" \notin DOMAIN file0.projects[2]
  /\ file0.projects[1]["platform"] # file0.projects[2]["platform"]

\* ---------------------------------------------- claims about the process
\* The runs the fan-out gathered: the per-project results that came without
\* an error, concatenated in registry order
RECURSIVE ConcatRuns(_)
ConcatRuns(rs) ==
  IF rs = <<>> THEN <<>>
  ELSE (IF rs[1].err = NoErr THEN rs[1].runs ELSE <<>>) \o ConcatRuns(Tail(rs))

Gathered == ConcatRuns(results)

ToSet(s) == {s[k] : k \in 1..Len(s)}

DistinctTimes(s) ==
  \A j, k \in 1..Len(s) : j # k => s[j].CreatedAt # s[k].CreatedAt

\* The fan-out of watch or list is over: every pass of the loop is done
Joined == command \in {"watch", "list"} /\ idx > Len(projects) /\ idx > 0

\* The merged list has been handed to rendering
Merged == Joined /\ rendered # <<>>

\* C1: in watch and list, when the gathered runs are not empty and their
\* createdAt values are pairwise distinct, the list handed to rendering is a
\* permutation of the gathered runs and is strictly descending by createdAt.
C1_MergedNewestFirst ==
  Joined /\ pc \notin {"watch_collect", "list_collect"}
         /\ Gathered # <<>> /\ DistinctTimes(Gathered) =>
    /\ Len(rendered) = Len(Gathered)
    /\ ToSet(rendered) = ToSet(Gathered)
    /\ \A j, k \in 1..Len(rendered) :
         j < k => rendered[j].CreatedAt > rendered[k].CreatedAt

\* C1 witness: a watch over two projects, the first returned the runs created
\* at 3 and 1, the second the run created at 2, and the rendered list has the
\* second project's run between the two of the first.
C1_Witness ==
  /\ command = "watch"
  /\ Len(results) = 2
  /\ Len(results[1].runs) = 2 /\ Len(results[2].runs) = 1
  /\ results[1].runs[1].CreatedAt = 3
  /\ results[1].runs[2].CreatedAt = 1
  /\ results[2].runs[1].CreatedAt = 2
  /\ Len(rendered) = 3
  /\ rendered[2] = results[2].runs[1]

FailedResults == {k \in 1..Len(results) : results[k].err # NoErr}

\* C2: when the fan-out of watch or list is over and the dispatch failed for
\* exactly one project, every project of the registry was queried, in registry
\* order; the collected runs are exactly the runs the other projects
\* returned; and a failure naming the failing project was printed.
C2_OneFailureDoesNotAbort ==
  Joined /\ Cardinality(FailedResults) = 1 =>
    /\ Len(results) = Len(projects)
    /\ \A k \in 1..Len(results) : results[k].project = projects[k]
    /\ Len(allRuns) = Len(Gathered)
    /\ ToSet(allRuns) = ToSet(Gathered)
    /\ \A k \in 1..Len(results) :
         results[k].err = NoErr => ToSet(results[k].runs) \subseteq ToSet(allRuns)
    /\ \A k \in FailedResults :
         \E m \in 1..Len(out) :
           /\ out[m].kind = "Failed to get workflows"
           /\ out[m].subject = results[k].project.Name
           /\ out[m].err = results[k].err

\* C2 witness: a list over three projects of which the second failed, the
\* first and the third returned runs, and the merged list was rendered.
C2_Witness ==
  /\ command = "list"
  /\ Len(projects) = 3
  /\ Len(results) = 3
  /\ results[1].err = NoErr /\ results[1].runs # <<>>
  /\ results[2].err # NoErr
  /\ results[3].err = NoErr /\ results[3].runs # <<>>
  /\ Len(rendered) = Len(results[1].runs) + Len(results[3].runs)

\* The states of the watch flow: Listing while the loop runs, Listed while the
\* prompt waits, Detail once a run was selected, Idle otherwise
FlowState ==
  CASE pc = "watch_collect" -> "Listing"
    [] pc = "watch_select" -> "Listed"
    [] selectedRun # <<>> -> "Detail"
    [] OTHER -> "Idle"

\* The inputs of the claim, by what was typed: "0", "-1", a text that is no
\* number, or one of the numerals 1, 2, 3, 9 when the list is shorter
TypedNumber(input) ==
  CASE input = <<"1">> -> 1
    [] input = <<"2">> -> 2
    [] input = <<"3">> -> 3
    [] input = <<"9">> -> 9
    [] OTHER -> 0

TypedInvalid(line, n) ==
  \/ line \in {<<"0", "\n">>, <<"-", "1", "\n">>, <<"x", "\n">>, <<"1", "x", "\n">>}
  \/ \E input \in {<<"1">>, <<"2">>, <<"3">>, <<"9">>} :
       /\ line \in {input \o <<"\n">>, <<" ">> \o input \o <<" ", "\n">>}
       /\ TypedNumber(input) > n

\* The selection prompt of watch was answered with an invalid selection
InvalidSelectionTyped ==
  /\ command = "watch"
  /\ stdin # <<>>
  /\ ~stdin[1].err
  /\ TypedInvalid(stdin[1].line, Len(rendered))

ListJobsCalls == {k \in 1..Len(net) : net[k].op = "ListJobs"}

InvalidSelectionReported ==
  \E m \in 1..Len(out) : out[m].kind = "Invalid selection"

\* C5 as stated: after an invalid selection the outcome is InvalidSelection,
\* the flow is still in state Listed, and no job listing was dispatched.
C5_InvalidSelectionStaysListed ==
  InvalidSelectionTyped =>
    /\ InvalidSelectionReported
    /\ FlowState = "Listed"
    /\ ListJobsCalls = {}

\* C5 as the code has it: after an invalid selection the outcome is
\* InvalidSelection, the flow has ended (it is Idle, the command returned
\* with status 0) without ever having been in Detail, and no job listing was
\* dispatched.
C5_InvalidSelectionEndsFlow ==
  InvalidSelectionTyped =>
    /\ InvalidSelectionReported
    /\ FlowState = "Idle"
    /\ pc = "done" /\ exitStatus = "0"
    /\ selectedRun = <<>>
    /\ ListJobsCalls = {}

\* C5 witness: a list of two runs was shown, "3" was typed, and the flow
\* ended with the invalid-selection message.
C5_Witness ==
  /\ command = "watch"
  /\ Len(rendered) = 2
  /\ stdin = <<[err |-> FALSE, line |-> <<"3", "\n">>]>>
  /\ InvalidSelectionReported
  /\ pc = "done"

\* The position of a run in a list that holds it once
PosIn(s, run) == CHOOSE k \in 1..Len(s) : s[k] = run

\* C7 as stated: runs with the same createdAt appear in the merged list in the
\* relative order they have in the concatenation of the per-project results.
C7_MergeIsStable ==
  Merged =>
    \A j, k \in 1..Len(Gathered) :
      j < k /\ Gathered[j].CreatedAt = Gathered[k].CreatedAt =>
        PosIn(rendered, Gathered[j]) < PosIn(rendered, Gathered[k])

\* The start flow dispatched a trigger to the GitHub client
TriggeredOnGitHub ==
  /\ command = "start"
  /\ pc = "done"
  /\ selectedWorkflow # ""
  /\ selectedProject # <<>>
  /\ selectedProject[1].Platform = "github"
  /\ env["GITHUB_TOKEN"] = "tok"

TriggerFailureShown ==
  \E m \in 1..Len(out) :
    /\ out[m].kind = "Failed to trigger workflow"
    /\ out[m].err.kind = "workflow triggering not yet implemented for GitHub"

TriggerSuccessShown ==
  \E m \in 1..Len(out) : out[m].kind = "Triggered workflow"

\* The registry in memory holds what the state document held at the start,
\* and the state document is what it was
NothingMutated ==
  /\ file = file0
  /\ Len(projects) = Len(file0.projects)
  /\ \A k \in 1..Len(projects) :
       /\ projects[k].Name = file0.projects[k]["name"]
       /\ projects[k].Owner = file0.projects[k]["owner"]
       /\ projects[k].Repo = file0.projects[k]["repo"]
       /\ projects[k].Platform = file0.projects[k]["platform"]

\* C8 as stated: after a trigger on the GitHub client the failure message is
\* shown, no success message is shown, nothing was mutated, and the process
\* is still running, ready for a further command.
C8_TriggerFailureKeepsProcessRunning ==
  TriggeredOnGitHub =>
    /\ TriggerFailureShown
    /\ ~TriggerSuccessShown
    /\ NothingMutated
    /\ exitStatus = "running"

\* C8 as the code has it: after a trigger on the GitHub client the failure
\* message is shown, no success message is shown, nothing was mutated, no
\* remote trigger call was issued, and the process has ended normally with
\* status 0.
C8_TriggerFailureEndsNormally ==
  TriggeredOnGitHub =>
    /\ TriggerFailureShown
    /\ ~TriggerSuccessShown
    /\ NothingMutated
    /\ Len(net) = 1 /\ net[1].op = "ListWorkflows"
    /\ exitStatus = "0"

\* C8 witness: start over a registry of two projects, the GitHub project was
\* selected at the menu, a workflow was chosen, and the failure was shown.
C8_Witness ==
  /\ TriggeredOnGitHub
  /\ Len(projects) = 2
  /\ stdin # <<>>
  /\ TriggerFailureShown
  /\ exitStatus = "0"

\* The process printed a failure whose cause is a missing token
CredentialErrorShown ==
  \E m \in 1..Len(out) : out[m].err.kind = "environment variable not set"

\* C11 as stated: once watch, list or start met a client whose credential is
\* absent, the command has terminated with that error and the process has
\* ended with a non-zero status; the flow does not continue.
C11_MissingCredentialIsFatal ==
  command \in {"watch", "list", "start"} /\ CredentialErrorShown =>
    /\ pc = "done"
    /\ exitStatus = "1"

\* The formats the README lists as supported, with the platform, owner and
\* repo each stands for
DocumentedFormats ==
  {"https://github.com/a/b.git", "git@github.com:a/b.git",
   "https://gitlab.com/c/d.git", "git@gitlab.com:c/d.git",
   "https://git.example.com/c/d.git"}

DocumentedPlatform(url) ==
  IF url \in {"https://github.com/a/b.git", "git@github.com:a/b.git"}
    THEN "github" ELSE "gitlab"

DocumentedOwner(url) == IF DocumentedPlatform(url) = "github" THEN <<"a">> ELSE <<"c">>

DocumentedRepo(url) == IF DocumentedPlatform(url) = "github" THEN <<"b">> ELSE <<"d">>

\* C20 as stated: parseRemoteURL accepts every format the README lists and
\* returns its platform, owner and repo, the trailing ".git" removed.
C20_DocumentedFormatsParse ==
  fnName = "parseRemoteURL" /\ fnIn.url \in DocumentedFormats =>
    /\ fnOut.err = NoErr
    /\ fnOut.val.platform = DocumentedPlatform(fnIn.url)
    /\ fnOut.val.owner = DocumentedOwner(fnIn.url)
    /\ fnOut.val.repo = DocumentedRepo(fnIn.url)

\* A job listing of either platform was applied
JobsListed == fnName \in {"getJobsForRun", "GetPipelineJobs"}

\* C15 as stated: every Job a job listing returns, on either platform and
\* for any remote response, has at least one Step.
C15_EveryJobHasAStep ==
  JobsListed =>
    \A k \in 1..Len(fnOut.val) : Len(fnOut.val[k].Steps) >= 1

\* The commands that work on the registry
RegistryCommands == {"add", "remove", "watch", "list", "start", "projects"}

\* C12 as stated: when the state document exists but cannot be read or
\* parsed, a command working on the registry fails fatally once the load is
\* over: its body is not executed (the process is at its end with a non-zero
\* status) and the document is what it was.
C12_UnreadableStateIsFatal ==
  file0.state = "corrupt" /\ command \in RegistryCommands /\ pc # "main" =>
    /\ pc = "done"
    /\ exitStatus = "1"
    /\ file = file0

\* ------------------------------------------- claims about the registry
Shown(kind) == \E m \in 1..Len(out) : out[m].kind = kind

\* The names of the projects of a document
DocumentNames(doc) == [k \in 1..Len(doc.projects) |-> doc.projects[k]["name"]]

\* The names of the registry in memory
RegistryNames == [k \in 1..Len(projects) |-> projects[k].Name]

NoRepeat(s) == \A j, k \in 1..Len(s) : j # k => s[j] # s[k]

\* C13: over invocations of add and remove that start from a document of
\* pairwise distinct names, no two projects of the registry in memory and no
\* two projects of the document have the same name; an add of a name that is
\* tracked leaves the registry and the document as they were.
C13_NamesStayUnique ==
  /\ NoRepeat(RegistryNames)
  /\ NoRepeat(DocumentNames(file))
  /\ Shown("Project is already tracked") =>
       /\ file = file0
       /\ RegistryNames = DocumentNames(file0)

\* C13 witness: the third invocation is an add whose project name an earlier
\* add of this sequence put into the document, and it reports the name as
\* tracked.
C13_Witness ==
  /\ cycles = 2
  /\ command = "add"
  /\ Shown("Project is already tracked")
  /\ \E k \in 1..Len(file.projects) :
       /\ file.projects[k]["added_at"] = "t1"
       /\ file.projects[k]["name"] = out[Len(out)].subject

\* The JSON object holds the fields of the project and nothing else
DocumentHolds(obj, p) ==
  /\ DOMAIN obj = {"name", "owner", "repo", "platform", "remote_url", "added_at"}
                    \cup (IF p.AccessToken = "" THEN {} ELSE {"access_token"})
  /\ obj["name"] = p.Name
  /\ obj["owner"] = p.Owner
  /\ obj["repo"] = p.Repo
  /\ obj["platform"] = p.Platform
  /\ obj["remote_url"] = p.RemoteURL
  /\ obj["added_at"] = p.AddedAt
  /\ p.AccessToken # "" => obj["access_token"] = p.AccessToken

\* C14: after a successful add or remove the document is readable, carries
\* the schema version, and its project sequence is the registry in memory:
\* as many projects, in the same order, each with the fields of its project.
C14_DocumentRewritten ==
  Shown("Added project") \/ Shown("Removed project") =>
    /\ file.state = "ok"
    /\ file.version = "1.0"
    /\ Len(file.projects) = Len(projects)
    /\ \A k \in 1..Len(projects) : DocumentHolds(file.projects[k], projects[k])

\* C14 witness: a remove, after an earlier invocation of this sequence, took a
\* document of three projects to one of two.
C14_Witness ==
  /\ cycles >= 1
  /\ Shown("Removed project")
  /\ Len(file0.projects) = 3
  /\ Len(file.projects) = 2
  /\ Len(projects) = 2

\* The selection prompt of watch was answered with the quit sentinel or with
\* a line that is empty once trimmed
QuitTyped ==
  /\ command = "watch"
  /\ stdin # <<>>
  /\ ~stdin[1].err
  /\ stdin[1].line \in {<<"q", "\n">>, <<"\n">>, <<" ", "\n">>}

\* C16: after "q" or an empty line at the selection prompt of watch, no
\* invalid selection and no other failure was reported, nothing was printed
\* after the prompt, no run was selected, no job listing was dispatched, and
\* the process has ended with status 0.
C16_QuitCancelsCleanly ==
  QuitTyped =>
    /\ ~Shown("Invalid selection")
    /\ ~Shown("Fatal")
    /\ out[Len(out)].kind = "Select a workflow run"
    /\ selectedRun = <<>>
    /\ ListJobsCalls = {}
    /\ pc = "done"
    /\ exitStatus = "0"

\* C16 witness: two runs were listed, a line holding one blank was typed, and
\* the process has ended.
C16_Witness ==
  /\ command = "watch"
  /\ Len(rendered) = 2
  /\ stdin = <<[err |-> FALSE, line |-> <<" ", "\n">>]>>
  /\ pc = "done"
  /\ exitStatus = "0"

\* A run of the rendered list was selected by the line typed at the prompt
ValidSelectionTyped ==
  /\ stdin # <<>>
  /\ ~stdin[1].err
  /\ selectedRun # <<>>
  /\ selectedRun[1] \in ToSet(rendered)

\* The steps of the claimed state machine
IdleToListing == FlowState = "Idle" /\ FlowState' = "Listing"

ListingToListed == FlowState = "Listing" /\ FlowState' = "Listed"

ListedToDetail ==
  FlowState = "Listed" /\ FlowState' = "Detail" /\ ValidSelectionTyped'

ListedToIdle ==
  FlowState = "Listed" /\ FlowState' = "Idle"
    /\ (QuitTyped' \/ InvalidSelectionTyped')

\* The steps the code takes besides: the fan-out gathered no run, and the
\* read of the selection failed (the process dies with status 1)
ListingToIdle ==
  FlowState = "Listing" /\ FlowState' = "Idle"
    /\ allRuns = <<>> /\ Shown("No workflow runs found")'

ListedToExit ==
  FlowState = "Listed" /\ FlowState' = "Idle"
    /\ stdin'[1].err /\ exitStatus' = "1"

\* C17 as stated: every execution starts at Idle, and a step that changes the
\* state of the flow is Idle->Listing, Listing->Listed, Listed->Detail on a
\* valid selection, or Listed->Idle on quit or an invalid selection.
C17_WatchStateMachine ==
  /\ FlowState = "Idle"
  /\ [][\/ FlowState' = FlowState
        \/ IdleToListing
        \/ ListingToListed
        \/ ListedToDetail
        \/ ListedToIdle]_vars

\* C17 as the code has it: the same, and besides Listing->Idle when the
\* fan-out gathered no run, and Listed->Idle when the read of the selection
\* fails, which ends the process with status 1.
C17_WatchStateMachineWithEmptyList ==
  /\ FlowState = "Idle"
  /\ [][\/ FlowState' = FlowState
        \/ IdleToListing
        \/ ListingToListed
        \/ ListedToDetail
        \/ ListedToIdle
        \/ ListingToIdle
        \/ ListedToExit]_vars

\* C17 witness: a watch went from Idle through Listing and Listed to Detail:
\* two runs were listed, the second was selected and its details were shown.
C17_Witness ==
  /\ command = "watch"
  /\ Len(rendered) = 2
  /\ selectedRun = <<rendered[2]>>
  /\ FlowState = "Detail"
  /\ pc = "done"

\* The last line read, and the length of the list its prompt showed
LastRead == stdin[Len(stdin)]

PickerSize ==
  CASE command = "watch" -> Len(rendered)
    [] selectedProject = <<>> -> Len(projects)
    [] OTHER -> Len(workflows)

Prompts == {"Select a workflow run", "Select a project", "Select a workflow"}

\* The line typed at the last prompt was out of range or no number
InvalidPickTyped ==
  /\ stdin # <<>>
  /\ ~LastRead.err
  /\ TypedInvalid(LastRead.line, PickerSize)

\* C18 as stated: when a watch, list or start has ended, every dispatch that
\* failed (for whatever cause) was reported with its error, a failed job
\* listing was reported, and an out-of-range or unparsable selection in the
\* run, project or workflow picker was followed by a message.
C18_NoSilentFailure ==
  pc = "done" /\ command \in {"watch", "list", "start"} =>
    /\ \A k \in 1..Len(results) :
         results[k].err # NoErr =>
           \E m \in 1..Len(out) :
             out[m].kind = "Failed to get workflows" /\ out[m].err = results[k].err
    /\ selectedRun # <<>> =>
         out[Len(out)].kind \in {"Failed to get jobs", "No jobs found", "Jobs"}
    /\ InvalidPickTyped => out[Len(out)].kind \notin Prompts

\* C19 as stated: for the same per-project run lists, the merged list is the
\* same whichever project's list is appended first.
C19_MergeIgnoresArrivalOrder ==
  fnName = "mergeOrders" => fnOut.val.first = fnOut.val.second

\* ------------------------------------- claims about reads and remote calls
\* The remote calls a step issues
NewCalls == SubSeq(net', Len(net) + 1, Len(net'))

\* C21 as stated: once a selection was read, the flow issues no remote call.
C21_ReadIsLastStep ==
  [][stdin # <<>> => net' = net]_vars

\* The calls that follow a read: in watch the job listing of the selected
\* run; in start the workflow (or branch) listing and the trigger of the selected
\* project
FollowsSelection(call) ==
  \/ /\ command = "watch"
     /\ call.op = "ListJobs"
     /\ selectedRun # <<>>
     /\ call.platform = selectedRun[1].Platform
     /\ call.identity = selectedRun[1].Project
     /\ call.arg = selectedRun[1].ID
  \/ /\ command = "start"
     /\ call.op \in {"ListWorkflows", "ListBranches", "CreatePipeline"}
     /\ selectedProject # <<>>
     /\ call.platform = selectedProject[1].Platform
     /\ call.identity = IF call.platform = "github"
                          THEN JoinSlash(selectedProject[1].Owner,
                                         selectedProject[1].Repo)
                        ELSE selectedProject[1].Name

\* C21 as the code has it: a step that reads a selection issues no remote
\* call and constructs no client, so every call issued before the read has
\* returned and none is in flight while the terminal is read; the calls
\* issued after a read are those the selection asks for: the job listing of
\* the selected run in watch, the workflow listing and the trigger of the
\* selected project in start.  The run listings are all over before the first
\* read.
C21_ReadOverlapsNoCall ==
  [][/\ stdin' # stdin => net' = net /\ clients' = clients
     /\ stdin # <<>> =>
          \A k \in 1..Len(NewCalls) : FollowsSelection(NewCalls[k])]_vars

\* C21 witness: a watch listed runs of a GitLab project, the selection was
\* read, and the job listing of the selected run was issued after it.
C21_Witness ==
  /\ command = "watch"
  /\ Len(stdin) = 1
  /\ selectedRun # <<>>
  /\ selectedRun[1].Platform = "gitlab"
  /\ pc = "done"
  /\ net[Len(net)].op = "ListJobs"
  /\ net[1].op = "ListRuns"

\* ------------------------------------------------- claims about the fan-out
\* The positions of the run listings among the remote calls
ListRunsCalls == {i \in 1..Len(net) : net[i].op = "ListRuns"}

\* The loop over the projects is running
Collecting == pc \in {"watch_collect", "list_collect"} /\ idx <= Len(projects)

\* C22: in watch and list the run listing is dispatched once per project, in
\* the order of the registry, a failing project included and not asked again:
\* while the loop runs, the dispatches made are those of the projects before
\* the current one, and each made at most one remote call; the merged runs
\* are sorted and rendered only when every project's dispatch has returned.
C22_OneDispatchPerProject ==
  command \in {"watch", "list"} =>
    /\ Len(results) <= Len(projects)
    /\ \A k \in 1..Len(results) : results[k].project = projects[k]
    /\ Cardinality(ListRunsCalls) <= Len(results)
    /\ Collecting => Len(results) = idx - 1
    /\ rendered # <<>> => Len(results) = Len(projects)
    /\ pc \in {"watch_select", "watch_details"} => Len(results) = Len(projects)

\* C22 witness: a list over three projects rendered runs although the
\* dispatch of one project failed; three dispatches were made.
C22_Witness ==
  /\ command = "list"
  /\ Len(projects) = 3
  /\ Len(results) = 3
  /\ FailedResults # {}
  /\ rendered # <<>>

\* ------------------------------------------------- claims about the routing
\* The identifier the client of a platform is given for a Project
ClientIdentity(project) ==
  IF project.Platform = "github" THEN JoinSlash(project.Owner, project.Repo)
  ELSE project.Name

\* C23: every dispatch operation routes by the Project's platform tag alone:
\* a Project tagged "github" constructs only the GitHub client and calls it
\* with (owner, repo); a Project tagged "gitlab" constructs only the GitLab
\* client and calls it with the project name as the identifier; neither ever
\* calls the other platform's client.
C23_RoutedByPlatformTag ==
  \A k \in 1..Len(FnProject) :
    FnProject[k].Platform \in KnownPlatforms =>
      /\ \A c \in 1..Len(fnOut.clients) : fnOut.clients[c] = FnProject[k].Platform
      /\ \A c \in 1..Len(fnOut.calls) :
           /\ fnOut.calls[c].platform = FnProject[k].Platform
           /\ fnOut.calls[c].identity = ClientIdentity(FnProject[k])

\* C23 witness: with both tokens set, the workflows of a Project tagged
\* "gitlab" whose name is c/d and whose owner and repo are a and b were
\* listed: the GitLab client alone was constructed and called once, with c/d.
C23_Witness ==
  /\ fnName = "getAvailableWorkflows"
  /\ AllTokensSet
  /\ fnIn.project.Platform = "gitlab"
  /\ fnIn.project.Name = NameCD
  /\ fnIn.project.Owner = <<"a">>
  /\ fnOut.clients = <<"gitlab">>
  /\ Len(fnOut.calls) = 1
  /\ fnOut.calls[1].identity = NameCD

\* ------------------------------------------------ claims about the colors
\* The (status, conclusion) pairs the color table names: three conclusions of
\* "completed", and five statuses whatever the conclusion
InColorTable(status, conclusion) ==
  \/ status = "completed" /\ conclusion \in {"success", "failure", "cancelled"}
  \/ status \in {"in_progress", "running", "queued", "pending", "failed"}

\* C24: colorWorkflowStatus and colorJobStatus return green only for status
\* "completed" with conclusion "success", and white for every pair outside
\* the table, so that no unmapped pair is shown as a success.
C24_GreenOnlyForCompletedSuccess ==
  fnName = "colorWorkflowStatus" =>
    \A f \in {"workflow", "job"} :
      /\ fnOut.val[f] = "green" <=>
           fnIn.status = "completed" /\ fnIn.conclusion = "success"
      /\ ~InColorTable(fnIn.status, fnIn.conclusion) => fnOut.val[f] = "white"

\* C24 witness: the pair ("success", "success"), which the table does not
\* name, was colored white, for a run and for a job.
C24_Witness ==
  /\ fnName = "colorWorkflowStatus"
  /\ fnIn.status = "success"
  /\ fnIn.conclusion = "success"
  /\ fnOut.val.workflow = "white"
  /\ fnOut.val.job = "white"

\* ----------------------------------------------- claims about the drill-down
\* The row a line names, 0 when it names none of the rows 1..3
RowTyped(line) ==
  CASE line = <<"1", "\n">> -> 1
    [] line = <<" ", "2", " ", "\n">> -> 2
    [] line = <<"3", "\n">> -> 3
    [] OTHER -> 0

\* The selection prompt of watch was answered with the number of a row
RowSelected ==
  /\ command = "watch"
  /\ stdin # <<>>
  /\ ~stdin[1].err
  /\ RowTyped(stdin[1].line) \in 1..Len(rendered)

DetailsShownFor(run) ==
  \E m \in 1..Len(out) :
    out[m].kind = "Workflow Details" /\ out[m].subject = run.Project

\* C25: a valid selection k in watch drills into exactly the run rendered at
\* row k: that run is the selected one, its details are the ones shown, and
\* the job listing is dispatched at most once, with that run's own platform,
\* project string and id.
C25_SelectionDrillsIntoRowK ==
  RowSelected =>
    LET run == rendered[RowTyped(stdin[1].line)]
    IN /\ selectedRun = <<run>>
       /\ Cardinality(ListJobsCalls) <= 1
       /\ \A c \in ListJobsCalls :
            /\ net[c].platform = run.Platform
            /\ net[c].identity = run.Project
            /\ net[c].arg = run.ID
       /\ pc = "done" => DetailsShownFor(run)

\* C25 witness: three runs were rendered, " 2 " was typed, and the jobs of the
\* second row, a run on GitHub, were listed remotely; the first row is a run
\* of another project.
C25_Witness ==
  /\ RowSelected
  /\ Len(rendered) = 3
  /\ RowTyped(stdin[1].line) = 2
  /\ rendered[2].Platform = "github"
  /\ rendered[1].Project # rendered[2].Project
  /\ pc = "done"
  /\ ListJobsCalls # {}

\* ------------------------------------------------ claims about the trigger
\* The messages startWorkflow prints of a trigger, and the remote calls that
\* change something on a platform
TriggerMessages ==
  {m \in 1..Len(out) :
     out[m].kind \in {"Failed to trigger workflow", "Triggered workflow"}}

MutatingCalls ==
  {k \in 1..Len(net) :
     net[k].op \notin {"ListRuns", "ListJobs", "ListWorkflows", "ListBranches"}}

WorkflowsListed ==
  \E k \in 1..Len(net) :
    /\ net[k].op \in {"ListWorkflows", "ListBranches"}
    /\ \A c \in MutatingCalls : k < c

\* C26: the trigger is the only remote operation that changes anything, and
\* it belongs to start alone: no other command invokes it; start invokes it
\* at most once, and only when a project was selected, its workflow listing
\* succeeded with at least one workflow, and one of these was selected; the
\* success is printed only when the trigger returned no error.
C26_TriggerOnlyInStart ==
  /\ \A c \in MutatingCalls : net[c].op = "CreatePipeline"
  /\ command # "start" => TriggerMessages = {} /\ MutatingCalls = {}
  /\ command = "start" =>
       /\ Len(results) <= 1
       /\ Cardinality(MutatingCalls) <= Len(results)
       /\ Cardinality(TriggerMessages) = Len(results)
       /\ Len(results) = 1 =>
            /\ selectedProject # <<>>
            /\ results[1].project = selectedProject[1]
            /\ WorkflowsListed
            /\ workflows # <<>>
            /\ \E w \in 1..Len(workflows) : workflows[w] = selectedWorkflow
       /\ TriggerSuccessShown => results[1].err = NoErr

\* C26 witness: start triggered a workflow of a GitLab project after listing
\* two and reading the choice, the pipeline was created, and the success was
\* printed.
C26_Witness ==
  /\ command = "start"
  /\ pc = "done"
  /\ Len(workflows) = 2
  /\ Cardinality(MutatingCalls) = 1
  /\ TriggerSuccessShown
  /\ selectedProject[1].Platform = "gitlab"

\* ----------------------------------------------- claims about the registry
ReadingCommands == {"watch", "list", "start", "projects"}

\* A step that leaves the document as it was at the start, and the projects
\* in memory once they are loaded
RegistryKept ==
  /\ file' = file
  /\ file' = file0
  /\ pc # "main" => projects' = projects

\* C27: watch, list, start and projects only read the registry: no step of
\* theirs writes the state document, which stays what it was when the process
\* started, and once the projects are loaded no step changes the list in
\* memory.
C27_RegistryReadOnly ==
  [][(command \in ReadingCommands) => RegistryKept]_vars

\* C27 witness: a start over three tracked projects triggered a pipeline
\* remotely and ended; the document and the three projects are as loaded.
C27_Witness ==
  /\ command = "start"
  /\ pc = "done"
  /\ Len(projects) = 3
  /\ Cardinality(MutatingCalls) = 1
  /\ NothingMutated

\* A remove of a name has ended
RemoveEnded == command = "remove" /\ args # <<>> /\ pc = "done"

\* The name given to remove is the name of a project of the document the
\* process started with
NameTracked ==
  file0.state = "ok" /\ \E k \in 1..Len(file0.projects) :
                           file0.projects[k]["name"] = args[1]

\* The projects of the starting document but the one of the name given
OthersOf(doc) == SelectSeq(doc.projects, LAMBDA obj : obj["name"] # args[1])

RemovalShown ==
  \E m \in 1..Len(out) :
    out[m].kind = "Removed project" /\ out[m].subject = args[1]

NotFoundShown ==
  \E m \in 1..Len(out) :
    out[m].kind = "Project not found" /\ out[m].subject = args[1]

\* C28: remove <name> deletes exactly the project of that name: when it ends
\* normally the document holds the other projects, each as it was and in the
\* order they had, the registry in memory holds the same, and the removal is
\* reported; when the save fails the process ends with status 1 and the
\* document is as it was.  When no project has the name, the registry and the
\* document are unchanged and "Project not found" is reported.
C28_RemoveDeletesExactlyTheNamed ==
  RemoveEnded =>
    IF NameTracked
      THEN /\ RegistryNames = [k \in 1..Len(OthersOf(file0)) |->
                                 OthersOf(file0)[k]["name"]]
           /\ ~NotFoundShown
           /\ IF exitStatus = "0"
                THEN /\ file.state = "ok"
                     /\ file.projects = OthersOf(file0)
                     /\ Len(file.projects) = Len(file0.projects) - 1
                     /\ RemovalShown
                ELSE file = file0 /\ ~RemovalShown
      ELSE /\ file = file0
           /\ RegistryNames = DocumentNames(file0)
           /\ NotFoundShown
           /\ ~RemovalShown
           /\ exitStatus = "0"

\* C28 witness: the first of three projects was removed; the document holds
\* the second and the third, in that order.
C28_Witness ==
  /\ RemoveEnded
  /\ Len(file0.projects) = 3
  /\ file0.projects[1]["name"] = args[1]
  /\ exitStatus = "0"
  /\ file.projects = <<file0.projects[2], file0.projects[3]>>

====
